---- MODULE Spec2Model ----
(***************************************************************************)
(* Model of atproto.tools: the PLC mirror's paginator (pkg/plc/plc.go) and *)
(* the firehose consumer (pkg/stream/handlers.go, cmd/stream/main.go).     *)
(*                                                                         *)
(* The specifications share the module, each over its own variables:      *)
(*   SpecPLC    the paginator: Run, GetNextPage, crash and restart         *)
(*   Spec       the consumer: Start, the cursor flusher, the frame         *)
(*              handlers behind the scheduler, the supervisor              *)
(*   SpecSched  the scheduler's capacity, with the program's own numbers   *)
(*   SpecLife   LookingGlass with its goroutines: the liveness checker,    *)
(*              the HTTP server, the stream, the flusher and the sweeper   *)
(*              (SpecLifeFair adds the fairness of the Go scheduler)       *)
(*   SpecFrame  one frame through its handler: RepoCommit with its         *)
(*              operations, RepoHandle, RepoIdentity, RepoMigrate,         *)
(*              RepoTombstone                                              *)
(*   SpecSweep  the retention sweeper over the events and records tables,  *)
(*              with a clock                                               *)
(*   SpecIdent  the identities table under commit, handle and identity     *)
(*              frames                                                     *)
(*   SpecBackoff  the paginator's Run loop with its waits, in seconds      *)
(*   SpecApi    the PLC mirror's queries over the operations table:        *)
(*              GetDIDDocument, GetDIDByHandle, GetHandleByDID and their   *)
(*              HTTP handlers                                              *)
(*   SpecRecords  the consumer's GET /records handler                      *)
(*   SpecSink   the warehouse sink (pkg/bq): InsertRecord and the flush    *)
(*              goroutine                                                  *)
(*   SpecShut   PLC.Shutdown against PLC.Run (SpecShutFair adds the        *)
(*              fairness of Run's goroutine and timers)                    *)
(***************************************************************************)
EXTENDS Integers, Sequences, FiniteSets, TLC

VARIABLES
    \* ---- PLC mirror ----
    plcLog,        \* the directory's append-only log: index -> subject
    plcPc,         \* where Run / GetNextPage stands
    memCursor,     \* plc.Cursor, the in-memory cursor
    cursorTbl,     \* the cursors table (rows in primary-key order)
    opsTbl,        \* the db_ops table, in insertion order
    didsTbl,       \* the db_dids table, in insertion order
    reqAfter,      \* the `after` parameter of the last export request
    page,          \* the response body being decoded (log indexes)
    pageOps,       \* dbOps, the batch built by the decode loop
    prevAfter,     \* `after` of the last request that failed after its response
    prevFailed,    \* the previous GetNextPage failed after its response
    firstReq,      \* no export request was issued since NewPLC
    plcFaults,     \* failures injected so far
    plcRestarts,   \* restarts so far
    \* ---- firehose consumer ----
    repoOf,        \* the relay's frames: sequence number -> repository
    run,           \* process starts so far
    sup,           \* where LookingGlass (the supervisor) stands
    ctxDone,       \* the root context is cancelled
    st,            \* where Stream.Start stands
    c,             \* Start's cursor variable, shared with the flusher
    sCursorTbl,    \* the consumer's cursors table
    fl,            \* where the cursor flusher goroutine stands
    connSeq,       \* the seq query parameter of the connection request
    bootCursor,    \* the cursors table as the process found it
    relayStart,    \* the first frame the relay sends on this connection
    relayPos,      \* the next frame the relay sends
    relayHead,     \* the newest frame the relay ever sent
    lastSeq,       \* s.lastSeq
    mailbox,       \* scheduler: key -> submitted frames not yet started
    hpc,           \* frame -> where its handler stands in this process
    recordsTbl,    \* the records table, in insertion order
    eventsTbl,     \* the events table, in insertion order
    recBase,       \* rows of recordsTbl written by earlier processes
    evtBase,       \* rows of eventsTbl written by earlier processes
    receivedPrev,  \* frames received by earlier processes
    startOrder,    \* key -> frames in the order their handlers started
    lastSeqAtClose,\* s.lastSeq when streamClosed was closed
    \* ---- scheduler capacity ----
    capPending,    \* frames submitted and not yet started
    capRunning,    \* frame handlers executing
    \* ---- LookingGlass and its goroutines ----
    ttl,           \* s.ttl, the evt-record-ttl flag
    mon,           \* where the liveness checker goroutine stands
    monLast,       \* the liveness checker's local lastSeq
    kill,          \* the kill channel is closed
    http,          \* where the HTTP server goroutine stands
    swp,           \* where the sweeper goroutine stands
    cause,         \* the case LookingGlass's select took
    exitCode,      \* the exit code of the process, <<>> while it runs
    \* ---- one frame in its handler ----
    evt,           \* the frame the handler was called with
    fpc,           \* where the handler stands
    opi,           \* RepoCommit: the index of the next operation of evt.Ops
    e,             \* the handler's Event value
    deferred,      \* the deferred s.writer.Create(e) is registered
    fRecords,      \* record rows the handler has inserted
    fEvents,       \* event rows the handler has inserted
    fLookups,      \* paths r.GetRecordBytes was called with
    \* ---- the retention sweeper ----
    now,           \* the clock, time.Now()
    firedAt,       \* the time the sweeper's ticker last fired
    swpc,          \* where the sweeper stands in its ticker case
    sEvents,       \* the events table: rows with their created_at
    sRecords,      \* the records table: rows with their created_at
    sIns,          \* rows inserted so far
    \* ---- the identities table ----
    identTbl,      \* the identities table, in insertion order
    idDir,         \* the identity directory: subject -> its handle and PDS
    idCache,       \* the directory's cache: subject -> its entry
    idFrames,      \* frames handled so far
    idSaves,       \* saves of an identity that succeeded so far
    idLast,        \* what the last frame found in the cache and saved
    \* ---- the paginator's waits ----
    bpc,           \* where Run stands
    bResp,         \* how the last GetNextPage ended
    bErr,          \* the error the last GetNextPage returned
    bElapsed,      \* seconds since it returned, up to the longest wait
    \* ---- the HTTP surface ----
    apiOps,        \* the db_ops table the queries read
    apiCall,       \* the last query: function, argument, row read, result
    apiResp,       \* the HTTP response of the last request
    apiStore,      \* the last request reached the store
    \* ---- the warehouse sink ----
    recordBuf,     \* bq.recordBuf, the buffered rows, oldest first
    bqNext,        \* rows handed to InsertRecord so far
    bqStored,      \* rows the warehouse holds
    bqDropped,     \* rows taken into a batch whose Put failed
    bqLast,        \* the last flush: its batch and how it ended
    \* ---- PLC.Shutdown against PLC.Run ----
    sctx,          \* Run's context is cancelled
    spc            \* where Shutdown stands

plcVars == <<plcLog, plcPc, memCursor, cursorTbl, opsTbl, didsTbl, reqAfter,
             page, pageOps, prevAfter, prevFailed, firstReq, plcFaults,
             plcRestarts>>

streamVars == <<repoOf, run, sup, ctxDone, st, c, sCursorTbl, fl, connSeq,
                bootCursor, relayStart, relayPos, relayHead, lastSeq, mailbox,
                hpc, recordsTbl, eventsTbl, recBase, evtBase, receivedPrev,
                startOrder, lastSeqAtClose>>

capVars == <<capPending, capRunning>>

lifeVars == <<ttl, mon, monLast, kill, http, swp, cause, exitCode>>

frameVars == <<evt, fpc, opi, e, deferred, fRecords, fEvents, fLookups>>

sweepVars == <<now, firedAt, swpc, sEvents, sRecords, sIns>>

identVars == <<identTbl, idDir, idCache, idFrames, idSaves, idLast>>

\* the parts added to the first six
backoffVars == <<bpc, bResp, bErr, bElapsed>>

apiVars == <<apiOps, apiCall, apiResp, apiStore>>

sinkVars == <<recordBuf, bqNext, bqStored, bqDropped, bqLast>>

shutVars == <<sctx, spc>>

lateVars == <<sinkVars, shutVars>>

auxVars == <<identVars, backoffVars, apiVars, lateVars>>

vars == <<plcVars, streamVars, capVars, lifeVars, frameVars, sweepVars, auxVars>>

------------------------------------------------------------------------------
(* Bounds of the PLC model *)

\* PLC.PageSize is 1000 (NewPLC); pages are scaled down with the log.
PageSize == 2
LogLen == 4
MaxPlcFaults == 2
MaxPlcRestarts == 1

Dids == {"did:plc:a", "did:plc:b"}

------------------------------------------------------------------------------
(* Helpers *)

Last(s) == s[Len(s)]

RECURSIVE SeqMax(_)
SeqMax(s) == IF s = <<>> THEN 0
             ELSE LET m == SeqMax(Tail(s)) IN IF Head(s) > m THEN Head(s) ELSE m

\* the first n elements of s
Take(s, n) == SubSeq(s, 1, IF n < Len(s) THEN n ELSE Len(s))

------------------------------------------------------------------------------
(* PLC mirror: data *)

\* The creation timestamp of the log's i-th operation (strictly increasing).
CreatedAtOf(i) == i

\* type Cursor: the zero value has ID 0
ZeroCursor == [ID |-> 0, DID |-> "", LastCreatedAt |-> 0, OpsSeen |-> 0]

\* faulty variant: NewPLC does not load the persisted cursor
LoadCursorFresh(tbl) == ZeroCursor

\* NewPLC: writerDB.First(cursor); a missing row leaves the zero cursor
LoadCursor(tbl) == IF tbl = <<>> THEN ZeroCursor ELSE tbl[1]

\* GetNextPage: the `after` parameter, present only when the cursor has a row
AfterParam(cur) == IF cur.ID # 0 THEN <<cur.LastCreatedAt>> ELSE <<>>

\* The directory's export: the operations created after `after`, oldest
\* first, at most `count` of them.
RECURSIVE ExportFrom(_, _)
ExportFrom(i, after) ==
    IF i > LogLen THEN <<>>
    ELSE IF after = <<>> \/ CreatedAtOf(i) > after[1]
         THEN <<i>> \o ExportFrom(i + 1, after)
         ELSE ExportFrom(i + 1, after)

Export(after, count) == Take(ExportFrom(1, after), count)

\* PLCOp.ToDBOp, the columns the paginator's claims read
ToDBOp(i) == [DID |-> plcLog[i], CreatedAt |-> CreatedAtOf(i)]

\* the decode loop's cursor update for one operation
AdvanceCursor(cur, i) ==
    [cur EXCEPT !.DID = plcLog[i], !.LastCreatedAt = CreatedAtOf(i),
                !.OpsSeen = cur.OpsSeen + 1]

RECURSIVE DecodeCursor(_, _)
DecodeCursor(cur, ops) ==
    IF ops = <<>> THEN cur
    ELSE DecodeCursor(AdvanceCursor(cur, Head(ops)), Tail(ops))

\* gorm Save: a zero primary key inserts a row and sets the ID; otherwise
\* the row with that ID is rewritten
SavedCursor(tbl, cur) == IF cur.ID = 0 THEN [cur EXCEPT !.ID = Len(tbl) + 1] ELSE cur

\* faulty variant: Save always inserts a row
SaveCursorInsert(tbl, cur) == Append(tbl, SavedCursor(tbl, cur))

SaveCursor(tbl, cur) ==
    IF cur.ID = 0 THEN Append(tbl, SavedCursor(tbl, cur))
    ELSE [k \in 1..Len(tbl) |-> IF tbl[k].ID = cur.ID THEN cur ELSE tbl[k]]

\* CreateInBatches(dbDids) with OnConflict{DoNothing}: the unique index on
\* DID drops the subjects already present
RECURSIVE InsertDids(_, _)
InsertDids(tbl, ops) ==
    IF ops = <<>> THEN tbl
    ELSE LET d == plcLog[Head(ops)]
         IN InsertDids(IF \E k \in 1..Len(tbl) : tbl[k] = d THEN tbl ELSE Append(tbl, d),
                       Tail(ops))

RECURSIVE InsertOps(_, _)
InsertOps(tbl, ops) ==
    IF ops = <<>> THEN tbl ELSE InsertOps(Append(tbl, ToDBOp(Head(ops))), Tail(ops))

------------------------------------------------------------------------------
(* PLC mirror: state machine *)

\* the paginator before its first request, over the directory log `log`
PlcStart(log) ==
    /\ plcLog = log
    /\ plcPc = "loop"
    /\ memCursor = ZeroCursor
    /\ cursorTbl = <<>>
    /\ opsTbl = <<>>
    /\ didsTbl = <<>>
    /\ reqAfter = <<>>
    /\ page = <<>>
    /\ pageOps = <<>>
    /\ prevAfter = <<>>
    /\ prevFailed = FALSE
    /\ firstReq = TRUE
    /\ plcFaults = 0
    /\ plcRestarts = 0

\* GetNextPage fails after the response was received: Run logs the error and
\* waits 5 seconds
FailAfterResponse ==
    /\ plcFaults < MaxPlcFaults
    /\ plcFaults' = plcFaults + 1
    /\ plcPc' = "wait5s"
    /\ prevFailed' = TRUE
    /\ prevAfter' = reqAfter
    /\ page' = <<>>
    /\ pageOps' = <<>>

\* Run calls GetNextPage, which builds and sends the export request
SendRequest ==
    /\ plcPc = "loop"
    /\ reqAfter' = AfterParam(memCursor)
    /\ plcPc' = "sent"
    /\ UNCHANGED <<plcLog, memCursor, cursorTbl, opsTbl, didsTbl, page, pageOps,
                   prevAfter, prevFailed, firstReq, plcFaults, plcRestarts>>

\* Client.Do fails, or the status is neither 200 nor 429
RequestFails ==
    /\ plcPc = "sent"
    /\ plcFaults < MaxPlcFaults
    /\ plcFaults' = plcFaults + 1
    /\ plcPc' = "wait5s"
    /\ prevFailed' = FALSE
    /\ firstReq' = FALSE
    /\ UNCHANGED <<plcLog, memCursor, cursorTbl, opsTbl, didsTbl, reqAfter, page,
                   pageOps, prevAfter, plcRestarts>>

\* status 429: ErrRateLimited
RateLimited ==
    /\ plcPc = "sent"
    /\ plcFaults < MaxPlcFaults
    /\ plcFaults' = plcFaults + 1
    /\ plcPc' = "wait2m"
    /\ prevFailed' = FALSE
    /\ firstReq' = FALSE
    /\ UNCHANGED <<plcLog, memCursor, cursorTbl, opsTbl, didsTbl, reqAfter, page,
                   pageOps, prevAfter, plcRestarts>>

\* status 200: the body holds the next page of the log
Response200 ==
    /\ plcPc = "sent"
    /\ page' = Export(reqAfter, PageSize)
    /\ pageOps' = <<>>
    /\ plcPc' = "decoding"
    /\ prevFailed' = FALSE
    /\ firstReq' = FALSE
    /\ UNCHANGED <<plcLog, memCursor, cursorTbl, opsTbl, didsTbl, reqAfter,
                   prevAfter, plcFaults, plcRestarts>>

\* the decode loop reads the whole body; an empty page returns (0, nil)
DecodePage ==
    /\ plcPc = "decoding"
    /\ memCursor' = DecodeCursor(memCursor, page)
    /\ pageOps' = page
    /\ plcPc' = IF page = <<>> THEN "waitInterval" ELSE "insertOps"
    /\ UNCHANGED <<plcLog, cursorTbl, opsTbl, didsTbl, reqAfter, page, prevAfter,
                   prevFailed, firstReq, plcFaults, plcRestarts>>

\* dec.Decode fails on the (k+1)-th operation, after k were decoded
DecodeFails ==
    /\ plcPc = "decoding"
    /\ \E k \in 0..(Len(page) - 1) :
           memCursor' = DecodeCursor(memCursor, Take(page, k))
    /\ FailAfterResponse
    /\ UNCHANGED <<plcLog, cursorTbl, opsTbl, didsTbl, reqAfter, firstReq,
                   plcRestarts>>

\* Writer.CreateInBatches(dbOps, 100): one transaction
InsertOpsOk ==
    /\ plcPc = "insertOps"
    /\ opsTbl' = InsertOps(opsTbl, pageOps)
    /\ plcPc' = "insertDids"
    /\ UNCHANGED <<plcLog, memCursor, cursorTbl, didsTbl, reqAfter, page, pageOps,
                   prevAfter, prevFailed, firstReq, plcFaults, plcRestarts>>

\* faulty variant: the error of the operations insert is not checked
InsertOpsErrorIgnored ==
    /\ plcPc = "insertOps"
    /\ plcPc' = "insertDids"
    /\ UNCHANGED <<plcLog, memCursor, cursorTbl, opsTbl, didsTbl, reqAfter, page,
                   pageOps, prevAfter, prevFailed, firstReq, plcFaults, plcRestarts>>

InsertOpsFails ==
    /\ plcPc = "insertOps"
    /\ FailAfterResponse
    /\ UNCHANGED <<plcLog, memCursor, cursorTbl, opsTbl, didsTbl, reqAfter,
                   firstReq, plcRestarts>>

InsertDidsOk ==
    /\ plcPc = "insertDids"
    /\ didsTbl' = InsertDids(didsTbl, pageOps)
    /\ plcPc' = "saveCursor"
    /\ UNCHANGED <<plcLog, memCursor, cursorTbl, opsTbl, reqAfter, page, pageOps,
                   prevAfter, prevFailed, firstReq, plcFaults, plcRestarts>>

InsertDidsFails ==
    /\ plcPc = "insertDids"
    /\ FailAfterResponse
    /\ UNCHANGED <<plcLog, memCursor, cursorTbl, opsTbl, didsTbl, reqAfter,
                   firstReq, plcRestarts>>

\* Writer.Save(plc.Cursor); Run then waits CheckInterval after a short page
SaveCursorOk ==
    /\ plcPc = "saveCursor"
    /\ cursorTbl' = SaveCursor(cursorTbl, memCursor)
    /\ memCursor' = SavedCursor(cursorTbl, memCursor)
    /\ plcPc' = IF Len(pageOps) < PageSize THEN "waitInterval" ELSE "loop"
    /\ page' = <<>>
    /\ pageOps' = <<>>
    /\ UNCHANGED <<plcLog, opsTbl, didsTbl, reqAfter, prevAfter, prevFailed,
                   firstReq, plcFaults, plcRestarts>>

SaveCursorFails ==
    /\ plcPc = "saveCursor"
    /\ FailAfterResponse
    /\ UNCHANGED <<plcLog, memCursor, cursorTbl, opsTbl, didsTbl, reqAfter,
                   firstReq, plcRestarts>>

\* a wait of Run elapses: 2 minutes, 5 seconds or CheckInterval
WaitElapses ==
    /\ plcPc \in {"wait5s", "wait2m", "waitInterval"}
    /\ plcPc' = "loop"
    /\ page' = <<>>
    /\ pageOps' = <<>>
    /\ UNCHANGED <<plcLog, memCursor, cursorTbl, opsTbl, didsTbl, reqAfter,
                   prevAfter, prevFailed, firstReq, plcFaults, plcRestarts>>

\* the process dies at any step and is started again: NewPLC loads the cursor
CrashRestartPLC ==
    /\ plcRestarts < MaxPlcRestarts
    /\ plcRestarts' = plcRestarts + 1
    /\ memCursor' = LoadCursor(cursorTbl)
    /\ plcPc' = "loop"
    /\ page' = <<>>
    /\ pageOps' = <<>>
    /\ prevFailed' = FALSE
    /\ firstReq' = TRUE
    /\ UNCHANGED <<plcLog, cursorTbl, opsTbl, didsTbl, reqAfter, prevAfter,
                   plcFaults>>


------------------------------------------------------------------------------
(* Firehose consumer: bounds and data *)

MaxSeq == 3
MaxRuns == 2
\* the retention of the rows, in clock steps (72 hours by default)
SweepTTL == 2

Repos == {"did:plc:a", "did:plc:b"}
Frames == 1..MaxSeq

\* parallel.NewScheduler(100, 10, ...): NewScheduler(maxC, maxQ, ident, do)
maxConcurrency == 100
\* faulty variant: the two arguments swapped
maxQueueSwapped == maxConcurrency
maxQueue == 10

\* type Cursor of the consumer: the zero value
ZeroStreamCursor == [ID |-> 0, LastSeq |-> 0]

\* Start: s.writer.First(&c); a missing row leaves the zero cursor
LoadStreamCursor(tbl) == IF tbl = <<>> THEN ZeroStreamCursor ELSE tbl[1]

\* faulty variant: the seq parameter is set whatever the cursor holds
SeqParamAlways(cur) == <<cur.LastSeq>>

\* Start: the seq query parameter, set only when c.LastSeq != 0
SeqParam(cur) == IF cur.LastSeq # 0 THEN <<cur.LastSeq>> ELSE <<>>

\* The relay: with seq=S it resumes at sequence S, without it at the live
\* end of the stream.
RelayFirst(param, head) == IF param = <<>> THEN head + 1 ELSE param[1]

\* Stream.SetSeq
SetSeq(old, seq) == seq

\* faulty variant: the row takes the shared cursor, s.GetSeq(), not the frame's seq
RecordRowLastSeq(s) == [FirehoseSeq |-> lastSeq, Repo |-> repoOf[s]]

\* the Record and Event rows a handler writes for frame s
RecordRow(s) == [FirehoseSeq |-> s, Repo |-> repoOf[s]]
EventRow(s) == [FirehoseSeq |-> s, Repo |-> repoOf[s]]

\* s.writer.Create(e): FirehoseSeq is the primary key of events, so a second
\* row for the same frame is refused (and the error logged)
CreateEvent(tbl, row) ==
    IF \E k \in 1..Len(tbl) : tbl[k].FirehoseSeq = row.FirehoseSeq
    THEN tbl ELSE Append(tbl, row)

RECURSIVE SumLen(_, _)
SumLen(f, S) ==
    IF S = {} THEN 0
    ELSE LET r == CHOOSE x \in S : TRUE IN Len(f[r]) + SumLen(f, S \ {r})

\* frames submitted to the scheduler and not yet started
Pending == SumLen(mailbox, Repos)

\* frames whose handler is executing
Active == {s \in Frames : hpc[s] = "running"}

\* frames whose handler has started in this process
Started == {s \in Frames : hpc[s] # "idle"}

\* frames read from the connection by this process
ReceivedNow == IF st \in {"reading", "draining", "closed"}
               THEN relayStart..(relayPos - 1) ELSE {}

SetMax(S) == IF S = {} THEN 0 ELSE CHOOSE x \in S : \A y \in S : y <= x

------------------------------------------------------------------------------
(* The parallel scheduler (events/schedulers/parallel), from its contract *)

\* a submission is accepted while fewer than maxQueue frames are pending
CanSubmit(pending) == pending < maxQueue

\* a worker is free while fewer than maxConcurrency handlers execute
CanStart(running) == running < maxConcurrency

\* faulty variant: workers take frames without regard to the key being served
KeyAlwaysFree(r) == TRUE

\* a key is served by one worker at a time
KeyFree(r) == \A s \in Active : repoOf[s] # r

\* the frame of key r a worker takes next: the oldest submitted
NextFor(r) == Head(mailbox[r])

------------------------------------------------------------------------------
(* Firehose consumer: state machine *)

Alive == sup \in {"select", "waiting"}

NoMail == [r \in Repos |-> <<>>]

\* a fresh process over the tables it finds
Boot ==
    /\ sup' = "select"
    /\ ctxDone' = FALSE
    /\ st' = "load"
    /\ c' = ZeroStreamCursor
    /\ fl' = "none"
    /\ connSeq' = <<>>
    /\ bootCursor' = sCursorTbl
    /\ relayStart' = 0
    /\ relayPos' = 0
    /\ lastSeq' = 0
    /\ mailbox' = NoMail
    /\ hpc' = [s \in Frames |-> "idle"]
    /\ recBase' = Len(recordsTbl)
    /\ evtBase' = Len(eventsTbl)
    /\ receivedPrev' = receivedPrev \cup ReceivedNow
    /\ startOrder' = NoMail
    /\ lastSeqAtClose' = 0

StreamStart(frames) ==
    /\ repoOf = frames
    /\ run = 1
    /\ sup = "select"
    /\ ctxDone = FALSE
    /\ st = "load"
    /\ c = ZeroStreamCursor
    /\ sCursorTbl = <<>>
    /\ fl = "none"
    /\ connSeq = <<>>
    /\ bootCursor = <<>>
    /\ relayStart = 0
    /\ relayPos = 0
    /\ relayHead = 0
    /\ lastSeq = 0
    /\ mailbox = NoMail
    /\ hpc = [s \in Frames |-> "idle"]
    /\ recordsTbl = <<>>
    /\ eventsTbl = <<>>
    /\ recBase = 0
    /\ evtBase = 0
    /\ receivedPrev = {}
    /\ startOrder = NoMail
    /\ lastSeqAtClose = 0

\* Start, up to the dial: load the cursor, start the flusher, build the URL
StartLoad ==
    /\ Alive /\ st = "load"
    /\ c' = LoadStreamCursor(sCursorTbl)
    /\ fl' = "idle"
    /\ connSeq' = SeqParam(LoadStreamCursor(sCursorTbl))
    /\ st' = "dial"
    /\ UNCHANGED <<repoOf, run, sup, ctxDone, sCursorTbl, bootCursor, relayStart,
                   relayPos, relayHead, lastSeq, mailbox, hpc, recordsTbl,
                   eventsTbl, recBase, evtBase, receivedPrev, startOrder, lastSeqAtClose>>

\* d.Dial succeeds: the scheduler is created and HandleRepoStream reads
DialOk ==
    /\ Alive /\ st = "dial"
    /\ relayStart' = RelayFirst(connSeq, relayHead)
    /\ relayPos' = RelayFirst(connSeq, relayHead)
    /\ st' = "reading"
    /\ UNCHANGED <<repoOf, run, sup, ctxDone, c, sCursorTbl, fl, connSeq,
                   bootCursor, relayHead, lastSeq, mailbox, hpc, recordsTbl,
                   eventsTbl, recBase, evtBase, receivedPrev, startOrder, lastSeqAtClose>>

\* d.Dial fails: Start returns the error, the stream goroutine closes
\* streamKill and streamShutdownFinished
DialFails ==
    /\ Alive /\ st = "dial"
    /\ st' = "error"
    /\ UNCHANGED <<repoOf, run, sup, ctxDone, c, sCursorTbl, fl, connSeq,
                   bootCursor, relayStart, relayPos, relayHead, lastSeq, mailbox,
                   hpc, recordsTbl, eventsTbl, recBase, evtBase, receivedPrev,
                   startOrder, lastSeqAtClose>>

\* HandleRepoStream reads the next frame and submits it under its repo key
ReadFrame ==
    /\ Alive /\ st = "reading" /\ ~ctxDone
    /\ relayPos <= MaxSeq
    /\ CanSubmit(Pending)
    /\ LET r == repoOf[relayPos] IN
         mailbox' = [mailbox EXCEPT ![r] = Append(@, relayPos)]
    /\ relayHead' = IF relayPos > relayHead THEN relayPos ELSE relayHead
    /\ relayPos' = relayPos + 1
    /\ UNCHANGED <<repoOf, run, sup, ctxDone, st, c, sCursorTbl, fl, connSeq,
                   bootCursor, relayStart, lastSeq, hpc, recordsTbl, eventsTbl,
                   recBase, evtBase, receivedPrev, startOrder, lastSeqAtClose>>

\* the read loop ends: the context was cancelled or the transport failed
StreamEnds ==
    /\ Alive /\ st = "reading"
    /\ st' = "draining"
    /\ UNCHANGED <<repoOf, run, sup, ctxDone, c, sCursorTbl, fl, connSeq,
                   bootCursor, relayStart, relayPos, relayHead, lastSeq, mailbox,
                   hpc, recordsTbl, eventsTbl, recBase, evtBase, receivedPrev,
                   startOrder, lastSeqAtClose>>

\* the scheduler has drained: close(s.streamClosed), Start returns nil and
\* the stream goroutine closes streamShutdownFinished
Drained ==
    /\ Alive /\ st = "draining"
    /\ Pending = 0 /\ Active = {}
    /\ st' = "closed"
    /\ lastSeqAtClose' = lastSeq
    /\ UNCHANGED <<repoOf, run, sup, ctxDone, c, sCursorTbl, fl, connSeq,
                   bootCursor, relayStart, relayPos, relayHead, lastSeq, mailbox,
                   hpc, recordsTbl, eventsTbl, recBase, evtBase, receivedPrev,
                   startOrder>>

\* a worker takes the next frame of key r; the handler calls SetSeq first
BeginHandler(r) ==
    /\ Alive /\ st \in {"reading", "draining"}
    /\ mailbox[r] # <<>>
    /\ KeyFree(r)
    /\ CanStart(Cardinality(Active))
    /\ LET s == NextFor(r) IN
         /\ hpc' = [hpc EXCEPT ![s] = "running"]
         /\ lastSeq' = SetSeq(lastSeq, s)
         /\ mailbox' = [mailbox EXCEPT ![r] = SelectSeq(@, LAMBDA x : x # s)]
         /\ startOrder' = [startOrder EXCEPT ![r] = Append(@, s)]
    /\ UNCHANGED <<repoOf, run, sup, ctxDone, st, c, sCursorTbl, fl, connSeq,
                   bootCursor, relayStart, relayPos, relayHead, recordsTbl,
                   eventsTbl, recBase, evtBase, receivedPrev,
                   lastSeqAtClose>>

\* the rest of the handler: the record row of the frame's operation (none
\* when the frame is no commit, is too big or its operation is skipped with
\* an error), then the deferred s.writer.Create(e), then it returns
FinishHandler(s) ==
    /\ Alive /\ hpc[s] = "running"
    /\ \E written \in BOOLEAN :
           recordsTbl' = IF written THEN Append(recordsTbl, RecordRow(s))
                         ELSE recordsTbl
    /\ eventsTbl' = CreateEvent(eventsTbl, EventRow(s))
    /\ hpc' = [hpc EXCEPT ![s] = "done"]
    /\ UNCHANGED <<repoOf, run, sup, ctxDone, st, c, sCursorTbl, fl, connSeq,
                   bootCursor, relayStart, relayPos, relayHead, lastSeq, mailbox,
                   recBase, evtBase, receivedPrev, startOrder, lastSeqAtClose>>

\* the flusher's ticker fires: c.LastSeq = s.lastSeq; s.writer.Save(&c)
FlushTick ==
    /\ Alive /\ fl = "idle"
    /\ sCursorTbl' = SaveCursor(sCursorTbl, [c EXCEPT !.LastSeq = lastSeq])
    /\ c' = SavedCursor(sCursorTbl, [c EXCEPT !.LastSeq = lastSeq])
    /\ UNCHANGED <<repoOf, run, sup, ctxDone, st, fl, connSeq, bootCursor,
                   relayStart, relayPos, relayHead, lastSeq, mailbox, hpc,
                   recordsTbl, eventsTbl, recBase, evtBase, receivedPrev,
                   startOrder, lastSeqAtClose>>

\* the flusher sees streamClosed: the final save, then it returns
FlushFinal ==
    /\ Alive /\ fl = "idle" /\ st = "closed"
    /\ sCursorTbl' = SaveCursor(sCursorTbl, [c EXCEPT !.LastSeq = lastSeq])
    /\ c' = SavedCursor(sCursorTbl, [c EXCEPT !.LastSeq = lastSeq])
    /\ fl' = "done"
    /\ UNCHANGED <<repoOf, run, sup, ctxDone, st, connSeq, bootCursor,
                   relayStart, relayPos, relayHead, lastSeq, mailbox, hpc,
                   recordsTbl, eventsTbl, recBase, evtBase, receivedPrev,
                   startOrder, lastSeqAtClose>>

\* LookingGlass leaves its select (a signal, or streamKill after a failed
\* dial): cancel(), close the shutdown channels, then wait
SupShutdown ==
    /\ sup = "select"
    /\ sup' = "waiting"
    /\ ctxDone' = TRUE
    /\ UNCHANGED <<repoOf, run, st, c, sCursorTbl, fl, connSeq, bootCursor,
                   relayStart, relayPos, relayHead, lastSeq, mailbox, hpc,
                   recordsTbl, eventsTbl, recBase, evtBase, receivedPrev,
                   startOrder, lastSeqAtClose>>

\* streamShutdownFinished is closed: LookingGlass returns, the process exits
SupExit ==
    /\ sup = "waiting"
    /\ st \in {"closed", "error"}
    /\ sup' = "exited"
    /\ UNCHANGED <<repoOf, run, ctxDone, st, c, sCursorTbl, fl, connSeq,
                   bootCursor, relayStart, relayPos, relayHead, lastSeq, mailbox,
                   hpc, recordsTbl, eventsTbl, recBase, evtBase, receivedPrev,
                   startOrder, lastSeqAtClose>>

\* the process is killed at any step and the external supervisor starts it
\* again
CrashRestart ==
    /\ Alive
    /\ run < MaxRuns
    /\ run' = run + 1
    /\ Boot
    /\ UNCHANGED <<repoOf, sCursorTbl, relayHead, recordsTbl, eventsTbl>>

\* the external supervisor starts the process again after it exited
Restart ==
    /\ sup = "exited"
    /\ run < MaxRuns
    /\ run' = run + 1
    /\ Boot
    /\ UNCHANGED <<repoOf, sCursorTbl, relayHead, recordsTbl, eventsTbl>>

------------------------------------------------------------------------------
(* LookingGlass: the supervisor and its goroutines *)

\* LookingGlass before its select: the goroutines are started, kill is open
LifeStart(t) ==
    /\ ttl = t
    /\ mon = "run"
    /\ monLast = 0
    /\ kill = FALSE
    /\ http = "serving"
    /\ swp = "none"
    /\ cause = "none"
    /\ exitCode = <<>>

\* the cases of LookingGlass's select that can become ready: cli's app.Run
\* passes a background context, so ctx.Done() is ready only after cancel()
Causes == {"signal", "kill", "streamKill"}

\* the case cs of the select is ready
Ready(cs) ==
    CASE cs = "signal" -> TRUE
      [] cs = "kill" -> kill
      [] cs = "streamKill" -> st = "error"

\* faulty variant: the liveness checker finds the value unchanged at every tick
UnchangedAlways(seq, last) == TRUE

\* the liveness checker's comparison at a tick
Unchanged(seq, last) == seq = last

\* the exit code of main when LookingGlass returned err (<<>> for nil)
ExitOf(err) == IF err = <<>> THEN <<0>> ELSE <<1>>

\* Start up to the dial; the sweeper goroutine is started when s.ttl > 0
LifeStartLoad ==
    /\ StartLoad
    /\ swp' = IF ttl > 0 THEN "run" ELSE "none"
    /\ UNCHANGED <<ttl, mon, monLast, kill, http, cause, exitCode>>

\* the liveness checker's ticker fires: close(kill) when s.GetSeq() is the
\* value of the previous tick (closing a closed channel panics and the
\* process dies with exit code 2), otherwise remember the new value
MonTick ==
    /\ Alive /\ mon = "run"
    /\ IF Unchanged(lastSeq, monLast)
       THEN /\ kill' = TRUE
            /\ sup' = IF kill THEN "panicked" ELSE sup
            /\ exitCode' = IF kill THEN <<2>> ELSE exitCode
            /\ UNCHANGED monLast
       ELSE /\ monLast' = lastSeq
            /\ UNCHANGED <<kill, sup, exitCode>>
    /\ UNCHANGED <<ttl, mon, http, swp, cause>>
    /\ UNCHANGED <<repoOf, run, ctxDone, st, c, sCursorTbl, fl, connSeq,
                   bootCursor, relayStart, relayPos, relayHead, lastSeq, mailbox,
                   hpc, recordsTbl, eventsTbl, recBase, evtBase, receivedPrev,
                   startOrder, lastSeqAtClose>>

\* the liveness checker sees shutdownLivenessChecker closed
MonStop ==
    /\ sup = "waiting" /\ mon = "run"
    /\ mon' = "done"
    /\ UNCHANGED <<ttl, monLast, kill, http, swp, cause, exitCode>>
    /\ UNCHANGED streamVars

\* the HTTP goroutine sees shutdownHTTPServer closed and shuts the server
HttpStop ==
    /\ sup = "waiting" /\ http = "serving"
    /\ http' = "done"
    /\ UNCHANGED <<ttl, mon, monLast, kill, swp, cause, exitCode>>
    /\ UNCHANGED streamVars

\* the sweeper sees s.streamClosed closed
SweeperStop ==
    /\ Alive /\ swp = "run" /\ st = "closed"
    /\ swp' = "done"
    /\ UNCHANGED <<ttl, mon, monLast, kill, http, cause, exitCode>>
    /\ UNCHANGED streamVars

\* LookingGlass's select takes the ready case cs: cancel(), close the two
\* shutdown channels
LifeShutdown(cs) ==
    /\ Ready(cs)
    /\ SupShutdown
    /\ cause' = cs
    /\ UNCHANGED <<ttl, mon, monLast, kill, http, swp, exitCode>>

\* the three waits are over: LookingGlass returns nil and main returns
LifeExit ==
    /\ mon = "done" /\ http = "done"
    /\ SupExit
    /\ exitCode' = ExitOf(<<>>)
    /\ UNCHANGED <<ttl, mon, monLast, kill, http, swp, cause>>

------------------------------------------------------------------------------
(* One frame in its handler *)

\* the most operations a commit of the model carries
MaxOps == 2

Kinds == {"commit", "handle", "identity", "migrate", "tombstone"}

\* A create that succeeds: the declared CID (Cid, 0 for nil) is the CID of
\* the block r.GetRecordBytes finds at the path (BlockCid), the bytes (Rec)
\* decode, the path parses and the insert succeeds.
GoodOp(action) ==
    [Action |-> action, Cid |-> 1, LookupErr |-> FALSE, BlockCid |-> 1,
     Rec |-> "ok", PathOk |-> TRUE, InsertOk |-> TRUE]

\* the operations the frames of the model are built from: each branch of the
\* operation loop, and a block that is both mismatched and empty
OpCases ==
    { GoodOp("create"), GoodOp("update"), GoodOp("delete"), GoodOp("rename"),
      [GoodOp("create") EXCEPT !.Cid = 0],
      [GoodOp("update") EXCEPT !.LookupErr = TRUE],
      [GoodOp("create") EXCEPT !.BlockCid = 2],
      [GoodOp("update") EXCEPT !.Rec = "nil"],
      [GoodOp("create") EXCEPT !.BlockCid = 2, !.Rec = "nil"],
      [GoodOp("create") EXCEPT !.Rec = "badcbor"],
      [GoodOp("create") EXCEPT !.Rec = "nojson"],
      [GoodOp("update") EXCEPT !.PathOk = FALSE],
      [GoodOp("create") EXCEPT !.InsertOk = FALSE],
      [GoodOp("delete") EXCEPT !.PathOk = FALSE],
      [GoodOp("delete") EXCEPT !.InsertOk = FALSE] }

OpSeqs == UNION {[1..n -> OpCases] : n \in 0..MaxOps}

\* the frames: a commit with its flags and operations, or one of the other
\* kinds, whose handlers read only the time
Frame(kind, seq, repo, big, car, time, ops) ==
    [Kind |-> kind, Seq |-> seq, Repo |-> repo, TooBig |-> big, CarOk |-> car,
     TimeOk |-> time, Ops |-> ops]

FrameInputs ==
    {Frame("commit", sr[1], sr[2], big, car, time, ops) :
        sr \in {<<1, "did:plc:a">>, <<2, "did:plc:b">>}, big \in BOOLEAN,
        car \in BOOLEAN, time \in BOOLEAN, ops \in OpSeqs}
    \cup
    {Frame(kind, 1, "did:plc:a", FALSE, TRUE, time, <<>>) :
        kind \in Kinds \ {"commit"}, time \in BOOLEAN}

IdleFrame == Frame("commit", 1, "did:plc:a", FALSE, TRUE, TRUE, <<>>)

\* an entry of the event's error text: the message and the path it names
\* (0 when the message names no path)
ErrAt(msg, path) == [Msg |-> msg, Path |-> path]

\* e := &Event{FirehoseSeq, Repo, EventType}
NewEvent(f) ==
    [FirehoseSeq |-> f.Seq, Repo |-> f.Repo, EventType |-> f.Kind, Error |-> <<>>]

\* faulty variant: the tooBig flag is not looked at
TooBigIgnored(f) == FALSE

\* RepoCommit: if evt.TooBig
TooBig(f) == f.TooBig

\* faulty variant: the CID of the block is not compared with the declared one
CidMismatchIgnored(op) == FALSE

\* RepoCommit: if c != cid
CidMismatch(op) == op.Cid # op.BlockCid

\* faulty variant: an operation's failure ends the loop
AbortOps(i, n) == n + 1

\* RepoCommit: `continue`, the loop goes on with the next operation
ContinueOps(i, n) == i + 1

\* faulty variant: an unknown action is taken for a completed operation
UnknownActionAccepted(op, i) == <<>>

\* RepoCommit: the default case of the switch on op.Action
UnknownAction(op, i) == <<ErrAt("unknown action", i)>>

\* the error of the operation at path i, <<>> when it completes
OpError(op, i) ==
    IF op.Action \in {"create", "update"} THEN
        IF op.Cid = 0 THEN <<ErrAt("op missing cid", i)>>
        ELSE IF op.LookupErr THEN <<ErrAt("failed to get record bytes", i)>>
        ELSE IF CidMismatch(op) THEN <<ErrAt("cid mismatch", i)>>
        ELSE IF op.Rec = "nil" THEN <<ErrAt("record not found", i)>>
        ELSE IF op.Rec = "badcbor"
             THEN <<ErrAt("failed to unmarshal record from CBOR", i)>>
        ELSE IF op.Rec = "nojson"
             THEN <<ErrAt("failed to marshal record to JSON", i)>>
        ELSE IF ~op.PathOk THEN <<ErrAt("failed to parse record uri", i)>>
        ELSE IF ~op.InsertOk THEN <<ErrAt("failed to create db record", i)>>
        ELSE <<>>
    ELSE IF op.Action = "delete" THEN
        IF ~op.PathOk THEN <<ErrAt("failed to parse record uri", i)>>
        ELSE IF ~op.InsertOk THEN <<ErrAt("failed to create db record", i)>>
        ELSE <<>>
    ELSE UnknownAction(op, i)

\* faulty variant: the bytes are looked up for every operation
LooksUpAlways(op) == TRUE

\* r.GetRecordBytes(ctx, op.Path) is called: a create or an update that
\* declares a CID
LooksUp(op) == op.Action \in {"create", "update"} /\ op.Cid # 0

\* dbRecord of the operation at path i: a delete carries no payload
OpRecord(f, op, i) ==
    [FirehoseSeq |-> f.Seq, Repo |-> f.Repo, Path |-> i, Action |-> op.Action,
     Raw |-> IF op.Action = "delete" THEN "" ELSE "json"]

\* the handler is called with frame f
FrameStart(f) ==
    /\ evt = f
    /\ fpc = "called"
    /\ opi = 0
    /\ e = NewEvent(f)
    /\ deferred = FALSE
    /\ fRecords = <<>>
    /\ fEvents = <<>>
    /\ fLookups = {}

\* the handler returns: the deferred Create, when registered, inserts e
Return(ev, reg) ==
    /\ fpc' = "returned"
    /\ e' = ev
    /\ deferred' = reg
    /\ fEvents' = IF reg THEN Append(fEvents, ev) ELSE fEvents

\* RepoCommit up to the operation loop: the Create is deferred first, then
\* tooBig, the archive and the time are checked
RepoCommitBegin ==
    /\ fpc = "called" /\ evt.Kind = "commit"
    /\ IF TooBig(evt)
       THEN Return([e EXCEPT !.Error = <<ErrAt("commit too big", 0)>>], TRUE)
            /\ UNCHANGED opi
       ELSE IF ~evt.CarOk
       THEN Return([e EXCEPT !.Error = <<ErrAt("failed to read event repo", 0)>>], TRUE)
            /\ UNCHANGED opi
       ELSE IF ~evt.TimeOk
       THEN Return([e EXCEPT !.Error = <<ErrAt("failed to parse time", 0)>>], TRUE)
            /\ UNCHANGED opi
       ELSE /\ fpc' = "ops"
            /\ opi' = 1
            /\ deferred' = TRUE
            /\ UNCHANGED <<e, fEvents>>
    /\ UNCHANGED <<evt, fRecords, fLookups>>

\* one turn of the loop over evt.Ops
RepoCommitOp ==
    /\ fpc = "ops" /\ opi <= Len(evt.Ops)
    /\ LET op == evt.Ops[opi]
           err == OpError(op, opi)
       IN IF err = <<>>
          THEN /\ fRecords' = Append(fRecords, OpRecord(evt, op, opi))
               /\ opi' = opi + 1
               /\ UNCHANGED e
          ELSE /\ e' = [e EXCEPT !.Error = @ \o err]
               /\ opi' = ContinueOps(opi, Len(evt.Ops))
               /\ UNCHANGED fRecords
    /\ fLookups' = IF LooksUp(evt.Ops[opi]) THEN fLookups \cup {opi} ELSE fLookups
    /\ UNCHANGED <<evt, fpc, deferred, fEvents>>

\* the loop is over: the identity lookup, then return nil
RepoCommitEnd ==
    /\ fpc = "ops" /\ opi > Len(evt.Ops)
    /\ Return(e, deferred)
    /\ UNCHANGED <<evt, opi, fRecords, fLookups>>

\* RepoHandle, RepoIdentity, RepoMigrate, RepoTombstone: the time is parsed
\* before the Create is deferred
RepoOther ==
    /\ fpc = "called" /\ evt.Kind # "commit"
    /\ IF ~evt.TimeOk
       THEN Return([e EXCEPT !.Error = <<ErrAt("failed to parse time", 0)>>], FALSE)
       ELSE Return(e, TRUE)
    /\ UNCHANGED <<evt, opi, fRecords, fLookups>>

------------------------------------------------------------------------------
(* The retention sweeper (Stream.Start), with a clock *)

\* the clock runs from 0 to MaxNow
MaxNow == 4

\* the most rows the handlers insert
MaxRows == 3

\* the values of evt-record-ttl: negative, zero, and SweepTTL clock units
TTLs == {-1, 0, SweepTTL}

\* faulty variant: the threshold is one unit too early
ExpiredLate(created, at, t) == created + 1 < at - t

\* DELETE ... WHERE created_at < ?, with time.Now().Add(-s.ttl) read at `at`
Expired(created, at, t) == created < at - t

\* Start has run: the sweeper goroutine exists only if s.ttl > 0
SweepStart(t) ==
    /\ ttl = t
    /\ swp = IF t > 0 THEN "run" ELSE "none"
    /\ mon = "run" /\ monLast = 0 /\ kill = FALSE /\ http = "serving"
    /\ cause = "none" /\ exitCode = <<>>

\* empty tables, the ticker has not fired
SweepIdle ==
    /\ now = 0
    /\ firedAt = 0
    /\ swpc = "idle"
    /\ sEvents = {}
    /\ sRecords = {}
    /\ sIns = 0

\* time passes
ClockTick ==
    /\ now < MaxNow
    /\ now' = now + 1
    /\ UNCHANGED <<firedAt, swpc, sEvents, sRecords, sIns>>

\* s.writer.Create of an event or a record: gorm sets CreatedAt to the time
\* of the insert
StoreRow ==
    /\ sIns < MaxRows
    /\ sIns' = sIns + 1
    /\ LET row == [Id |-> sIns + 1, CreatedAt |-> now]
       IN \/ sEvents' = sEvents \cup {row} /\ UNCHANGED sRecords
          \/ sRecords' = sRecords \cup {row} /\ UNCHANGED sEvents
    /\ UNCHANGED <<now, firedAt, swpc>>

\* case <-ticker.C
SweeperTick ==
    /\ swp = "run"
    /\ swpc \in {"idle", "swept"}
    /\ firedAt' = now
    /\ swpc' = "events"
    /\ UNCHANGED <<now, sEvents, sRecords, sIns>>

\* DELETE FROM events WHERE created_at < time.Now().Add(-s.ttl)
SweepEvents ==
    /\ swpc = "events"
    /\ sEvents' = {r \in sEvents : ~Expired(r.CreatedAt, now, ttl)}
    /\ swpc' = "records"
    /\ UNCHANGED <<now, firedAt, sRecords, sIns>>

\* DELETE FROM records WHERE created_at < time.Now().Add(-s.ttl)
SweepRecords ==
    /\ swpc = "records"
    /\ sRecords' = {r \in sRecords : ~Expired(r.CreatedAt, now, ttl)}
    /\ swpc' = "swept"
    /\ UNCHANGED <<now, firedAt, sEvents, sIns>>

------------------------------------------------------------------------------
(* The identities table (Identity, saved by RepoCommit, RepoHandle and *)
(* RepoIdentity)                                                        *)

\* frames of the identity model
MaxIdFrames == 4

\* the handles and PDS endpoints a subject moves between
IdValues == {1, 2}

\* what the directory resolves a subject to: its first handle and PDS, a
\* new handle, a new handle at a new PDS
IdDocs == {doc \in [Handle : IdValues, PDS : IdValues] : doc.PDS <= doc.Handle}

\* &Identity{DID, Handle, PDS} of a resolved subject
IdentityOf(d, doc) == [DID |-> d, Handle |-> doc.Handle, PDS |-> doc.PDS]

\* faulty variant: Save always inserts
SaveIdentityInsert(tbl, row) == Append(tbl, row)

\* s.writer.Save(&Identity{...}): DID is the primary key; the row with that
\* key is rewritten, and inserted when there is none
SaveIdentity(tbl, row) ==
    IF \E k \in 1..Len(tbl) : tbl[k].DID = row.DID
    THEN [k \in 1..Len(tbl) |-> IF tbl[k].DID = row.DID THEN row ELSE tbl[k]]
    ELSE Append(tbl, row)

\* the outcomes of a lookup followed by the save
LookupOutcomes == {"lookupFails", "saveFails", "saved"}

\* the directory's cache: subject -> <<doc>>, <<>> when it holds no entry
NoEntry == <<>>

\* faulty variant: the entry is left in the cache
PurgeNothing(cache, d) == cache

\* s.dir.Purge(ctx, did.AtIdentifier())
Purge(cache, d) == [cache EXCEPT ![d] = NoEntry]

\* s.dir.LookupDID / LookupDIDWithCacheState: the cached entry when there is
\* one, otherwise what the directory resolves the subject to
LookupDID(cache, dir, d) ==
    IF cache[d] # NoEntry THEN [Doc |-> cache[d][1], FromCache |-> TRUE]
    ELSE [Doc |-> dir[d], FromCache |-> FALSE]

\* what the last frame did: the subject, the cache entry it found, and
\* whether its lookup was answered from the cache
Handled(kind, d, before, fromCache) ==
    [Kind |-> kind, DID |-> d, Before |-> before, FromCache |-> fromCache]

NoFrame == Handled("none", "", NoEntry, FALSE)

\* an empty table, an empty cache
IdentStart ==
    /\ identTbl = <<>>
    /\ idDir = [d \in Dids |-> [Handle |-> 1, PDS |-> 1]]
    /\ idCache = [d \in Dids |-> NoEntry]
    /\ idFrames = 0
    /\ idSaves = 0
    /\ idLast = NoFrame

\* the subject changes its handle or its PDS at the directory
DirUpdate(d, doc) ==
    /\ doc # idDir[d]
    /\ idDir' = [idDir EXCEPT ![d] = doc]
    /\ UNCHANGED <<identTbl, idCache, idFrames, idSaves, idLast>>

\* an entry of the directory's cache expires
CacheExpire(d) ==
    /\ idCache[d] # NoEntry
    /\ idCache' = [idCache EXCEPT ![d] = NoEntry]
    /\ UNCHANGED <<identTbl, idDir, idFrames, idSaves, idLast>>

\* the table after a lookup that gave doc for d, with outcome o
AfterLookup(d, doc, o) ==
    IF o = "saved" THEN SaveIdentity(identTbl, IdentityOf(d, doc)) ELSE identTbl

\* the lookup of d over the cache `cache` with outcome o, and the save that
\* follows it (for a commit only when the answer was not cached); a resolved
\* subject enters the cache
LookupAndSave(kind, cache, d, o, always) ==
    LET lk == LookupDID(cache, idDir, d)
        failed == o = "lookupFails" /\ ~lk.FromCache
        saves == ~failed /\ (always \/ ~lk.FromCache)
    IN /\ idCache' = IF failed THEN cache ELSE [cache EXCEPT ![d] = <<lk.Doc>>]
       /\ identTbl' = IF saves THEN AfterLookup(d, lk.Doc, o) ELSE identTbl
       /\ idSaves' = IF saves /\ o = "saved" THEN idSaves + 1 ELSE idSaves
       /\ idLast' = Handled(kind, d, idCache[d], lk.FromCache)

\* RepoCommit, after the operations: LookupDIDWithCacheState, and the save
\* only when the answer did not come from the cache
CommitIdentity(d, o) ==
    /\ idFrames < MaxIdFrames
    /\ idFrames' = idFrames + 1
    /\ LookupAndSave("commit", idCache, d, o, FALSE)
    /\ UNCHANGED idDir

\* RepoHandle and RepoIdentity: Purge, LookupDID, Save
PurgeAndSave(d, o) ==
    /\ idFrames < MaxIdFrames
    /\ idFrames' = idFrames + 1
    /\ LookupAndSave("handle", Purge(idCache, d), d, o, TRUE)
    /\ UNCHANGED idDir

------------------------------------------------------------------------------
(* The paginator's Run loop and its waits, in seconds *)

\* <-time.After(2 * time.Minute)
RateLimitWait == 120

\* <-time.After(5 * time.Second)
RetryWait == 5

\* the check-interval flag's default
CheckInterval == 5

\* how a call of GetNextPage ends: a full page, a short page, a status that
\* is not 200, or a failure before or after the response
PageResults ==
    {"fullPage", "shortPage", "status429", "status500", "limiterFails",
     "requestFails", "decodeFails", "saveFails"}

\* the error GetNextPage returns
PageError(r) ==
    IF r \in {"fullPage", "shortPage"} THEN "nil"
    ELSE IF r = "status429" THEN "ErrRateLimited"
    ELSE "other"

\* faulty variant: every failure gets the short wait
WaitAfterShort(r, err) ==
    IF err = "nil" THEN (IF r = "shortPage" THEN CheckInterval ELSE 0) ELSE RetryWait

\* Run: the wait that follows a call of GetNextPage
WaitAfter(r, err) ==
    IF err = "ErrRateLimited" THEN RateLimitWait
    ELSE IF err # "nil" THEN RetryWait
    ELSE IF r = "shortPage" THEN CheckInterval
    ELSE 0

\* Run is entered
BackoffStart ==
    /\ bpc = "loop"
    /\ bResp = "none"
    /\ bErr = "nil"
    /\ bElapsed = 0

\* a second passes while Run waits or is about to loop
BackoffSecond ==
    /\ bpc \in {"loop", "waiting"}
    /\ bElapsed < RateLimitWait
    /\ bElapsed' = bElapsed + 1
    /\ UNCHANGED <<bpc, bResp, bErr>>

\* Run calls GetNextPage, which issues the export request
CallGetNextPage ==
    /\ bpc = "loop"
    /\ bpc' = "inPage"
    /\ UNCHANGED <<bResp, bErr, bElapsed>>

\* GetNextPage returns; Run starts the wait its result asks for
GetNextPageReturns(r) ==
    /\ bpc = "inPage"
    /\ bResp' = r
    /\ bErr' = PageError(r)
    /\ bElapsed' = 0
    /\ bpc' = "waiting"

\* the timer of the wait fires: continue
WaitOver ==
    /\ bpc = "waiting"
    /\ bElapsed >= WaitAfter(bResp, bErr)
    /\ bpc' = "loop"
    /\ UNCHANGED <<bResp, bErr, bElapsed>>

\* Run sees ctx.Done() or a shutdown request at the top of the loop
RunReturns ==
    /\ bpc = "loop"
    /\ bpc' = "returned"
    /\ UNCHANGED <<bResp, bErr, bElapsed>>

------------------------------------------------------------------------------
(* The PLC mirror's queries: data *)

\* Strings are sequences of tokens, so that prefixes can be cut and
\* identifiers put together; a JSON value that is not a string has no tokens.
Str(toks) == [Kind |-> "string", Toks |-> toks]
NotStr == [Kind |-> "number", Toks |-> <<>>]
NoValue == [Kind |-> "absent", Toks |-> <<>>]

\* faulty variant: the prefix is kept
KeepPrefix(toks, p) == toks

\* strings.TrimPrefix
TrimPrefix(toks, p) == IF toks # <<>> /\ Head(toks) = p THEN Tail(toks) ELSE toks

\* a JSON object as a function from its keys; a list as a sequence
NoEntries == [k \in {} |-> NoValue]
JMap(entries) == [Kind |-> "map", Entries |-> entries, Items |-> <<>>]
JList(items) == [Kind |-> "list", Entries |-> NoEntries, Items |-> items]
JOther == [Kind |-> "other", Entries |-> NoEntries, Items |-> <<>>]
JAbsent == [Kind |-> "absent", Entries |-> NoEntries, Items |-> <<>>]

\* an entry of `services`: an object with type and endpoint, or something else
Svc(type, endpoint) == [Kind |-> "map", Type |-> type, Endpoint |-> endpoint]
SvcOther == [Kind |-> "other", Type |-> NoValue, Endpoint |-> NoValue]
NoSvcs == [k \in {} |-> SvcOther]
SvcMap(entries) == [Kind |-> "map", Entries |-> entries]
SvcMapOther == [Kind |-> "other", Entries |-> NoSvcs]
SvcMapAbsent == [Kind |-> "absent", Entries |-> NoSvcs]

\* the `operation` value of a PLC operation
Operation(aka, services, keys) ==
    [Kind |-> "map", Aka |-> aka, Services |-> services, Keys |-> keys]
NotAMap == [Kind |-> "other", Aka |-> JAbsent, Services |-> SvcMapAbsent, Keys |-> JAbsent]

Alice == Str(<<"at://", "alice.test">>)
Bob == Str(<<"at://", "bob.test">>)
PdsSvc == Svc(Str(<<"AtprotoPersonalDataServer">>), Str(<<"https://pds.test">>))
ChatSvc == Svc(Str(<<"BskyChat">>), Str(<<"https://chat.test">>))
OnePds == SvcMap([k \in {"atproto_pds"} |-> PdsSvc])
TwoSvcs == SvcMap([k \in {"atproto_pds", "bsky_chat"} |->
                    IF k = "atproto_pds" THEN PdsSvc ELSE ChatSvc])
OneKey == JMap([k \in {"atproto"} |-> Str(<<"did:key:", "zQ3a">>)])
TwoKeys == JMap([k \in {"atproto", "extra"} |->
                  IF k = "atproto" THEN Str(<<"did:key:", "zQ3a">>) ELSE Str(<<"zQ3b">>)])

\* the operations of the model: well-formed ones, and one for each way a
\* field can have the wrong shape
PlainOp == Operation(JList(<<Alice>>), OnePds, OneKey)

OperationCases ==
    { PlainOp,
      Operation(JList(<<Bob>>), OnePds, OneKey),
      Operation(JList(<<Alice, Bob>>), TwoSvcs, TwoKeys),
      NotAMap,
      Operation(JAbsent, OnePds, OneKey),
      Operation(JOther, OnePds, OneKey),
      Operation(JList(<<NotStr, Alice>>), OnePds, OneKey),
      Operation(JList(<<Alice>>), SvcMapAbsent, OneKey),
      Operation(JList(<<Alice>>), SvcMapOther, OneKey),
      Operation(JList(<<Alice>>), SvcMap([k \in {"atproto_pds"} |-> SvcOther]), OneKey),
      Operation(JList(<<Alice>>),
                SvcMap([k \in {"atproto_pds"} |-> Svc(NotStr, Str(<<"https://pds.test">>))]),
                OneKey),
      Operation(JList(<<Alice>>),
                SvcMap([k \in {"atproto_pds"} |-> Svc(Str(<<"T">>), NoValue)]),
                OneKey),
      Operation(JList(<<Alice>>), OnePds, JAbsent),
      Operation(JList(<<Alice>>), OnePds, JOther),
      Operation(JList(<<Alice>>), OnePds, JMap([k \in {"atproto"} |-> NotStr])) }

\* PLCOp.ToDBOp: the handle column is the first string of alsoKnownAs
\* without its at:// prefix, empty when there is none
RECURSIVE FirstString(_)
FirstString(items) ==
    IF items = <<>> THEN <<>>
    ELSE IF Head(items).Kind = "string" THEN TrimPrefix(Head(items).Toks, "at://")
    ELSE FirstString(Tail(items))

HandleColumn(op) ==
    IF op.Kind = "map" /\ op.Aka.Kind = "list" THEN FirstString(op.Aka.Items) ELSE <<>>

\* a row of db_ops
OpRow(did, at, nullified, op) ==
    [DID |-> did, CreatedAt |-> at, Nullified |-> nullified, Operation |-> op,
     Handle |-> HandleColumn(op)]

\* the rows of the model: every operation as a live row of the first
\* subject, and the two plain operations for both subjects, live or nullified
OpRows ==
    {OpRow("did:plc:a", 1, FALSE, op) : op \in OperationCases}
    \cup {OpRow(d, t, n, op) : d \in Dids, t \in {1, 2}, n \in BOOLEAN,
                               op \in {PlainOp, Operation(JList(<<Bob>>), OnePds, OneKey)}}

\* the tables of the model: up to two rows
OpTables == {<<>>} \cup {<<r>> : r \in OpRows} \cup {<<r, q>> : r \in OpRows, q \in OpRows}

------------------------------------------------------------------------------
(* The PLC mirror's queries: GetDIDDocument, GetDIDByHandle, GetHandleByDID *)

\* the rows of tbl whose column col is v
Matching(tbl, col, v) == {k \in 1..Len(tbl) : tbl[k][col] = v}

\* faulty variant: the order is ascending
Oldest(tbl, S) == {k \in S : \A j \in S : tbl[j].CreatedAt >= tbl[k].CreatedAt}

\* Order("created_at desc"): the rows of S with the highest created_at
Newest(tbl, S) == {k \in S : \A j \in S : tbl[j].CreatedAt <= tbl[k].CreatedAt}

\* First(&dbOp): the first row of the order, the lowest ID among equals;
\* 0 stands for gorm.ErrRecordNotFound
FirstRow(tbl, S) ==
    IF S = {} THEN 0
    ELSE CHOOSE k \in Newest(tbl, S) : \A j \in Newest(tbl, S) : k <= j

\* the orders in which a range over a Go map can visit its keys
Perms(S) ==
    {p \in [1..Cardinality(S) -> S] : \A i, j \in 1..Cardinality(S) : p[i] = p[j] => i = j}

\* var contexts
contexts ==
    <<"https://www.w3.org/ns/did/v1", "https://w3id.org/security/multikey/v1",
      "https://w3id.org/security/suites/secp256k1-2019/v1">>

Document(did, aka, services, methods) ==
    [Context |-> contexts, ID |-> did, AlsoKnownAs |-> aka, Service |-> services,
     VerificationMethod |-> methods]

NoDocument == [Context |-> <<>>, ID |-> "", AlsoKnownAs |-> <<>>, Service |-> <<>>,
               VerificationMethod |-> <<>>]

\* what a query returns: the error, and the document or the string
Result(err, msg, doc, value) == [Err |-> err, Msg |-> msg, Doc |-> doc, Value |-> value]
Failure(msg) == Result("other", msg, NoDocument, <<>>)
NotFound == Result("ErrNotFound", "not found", NoDocument, <<>>)
NoResult == Result("none", "", NoDocument, <<>>)
DbFailure == Failure("failed to get latest op")

\* identity.DocService{ID: "#" + id, Type, ServiceEndpoint}
ServiceOf(id, svc) ==
    [ID |-> <<"#", id>>, Type |-> svc.Type.Toks, ServiceEndpoint |-> svc.Endpoint.Toks]

\* the failure of one entry of services, "" when it has none
ServiceError(svc) ==
    IF svc.Kind # "map" THEN "service is not a map"
    ELSE IF svc.Type.Kind # "string" THEN "service map does not contain a 'type' key"
    ELSE IF svc.Endpoint.Kind # "string" THEN "service map does not contain a 'endpoint' key"
    ELSE ""

\* identity.DocVerificationMethod{ID: did + "#" + id, "Multikey", did, key}
MethodOf(did, id, key) ==
    [ID |-> <<did, "#", id>>, Type |-> "Multikey", Controller |-> did,
     PublicKeyMultibase |-> TrimPrefix(key.Toks, "did:key:")]

\* the failure the loops over the entries meet when they run in the orders
\* ps (services) and pk (verificationMethods), "" when they meet none
EntryError(op, ps, pk) ==
    IF \E i \in DOMAIN ps : ServiceError(op.Services.Entries[ps[i]]) # ""
    THEN LET i == CHOOSE i \in DOMAIN ps :
                      /\ ServiceError(op.Services.Entries[ps[i]]) # ""
                      /\ \A j \in 1..(i - 1) : ServiceError(op.Services.Entries[ps[j]]) = ""
         IN ServiceError(op.Services.Entries[ps[i]])
    ELSE IF \E i \in DOMAIN pk : op.Keys.Entries[pk[i]].Kind # "string"
    THEN "failed to cast verification method key to string"
    ELSE ""

\* the keys the loops visit: none when the field is not an object
ServiceKeys(op) == IF op.Services.Kind = "map" THEN DOMAIN op.Services.Entries ELSE {}
MethodKeys(op) == IF op.Keys.Kind = "map" THEN DOMAIN op.Keys.Entries ELSE {}

\* GetDIDDocument after the row is loaded: the results it can return for the
\* operation op of subject did
Projections(did, op) ==
    IF op.Kind # "map" THEN {Failure("failed to cast operation to map")}
    ELSE IF op.Aka.Kind # "list"
    THEN {Failure("failed to cast alsoKnownAs to []interface{}")}
    ELSE IF \E i \in 1..Len(op.Aka.Items) : op.Aka.Items[i].Kind # "string"
    THEN {Failure("failed to cast alsoKnownAs to string")}
    ELSE { IF EntryError(op, ps, pk) # "" THEN Failure(EntryError(op, ps, pk))
           ELSE Result("nil", "",
                    Document(did,
                        [i \in 1..Len(op.Aka.Items) |-> op.Aka.Items[i].Toks],
                        [i \in DOMAIN ps |-> ServiceOf(ps[i], op.Services.Entries[ps[i]])],
                        [i \in DOMAIN pk |-> MethodOf(did, pk[i], op.Keys.Entries[pk[i]])]),
                    <<>>)
           : ps \in Perms(ServiceKeys(op)), pk \in Perms(MethodKeys(op)) }

\* the row GetDIDDocument and GetHandleByDID read for subject did
RowOfDID(tbl, did) == FirstRow(tbl, Matching(tbl, "DID", did))

\* the row GetDIDByHandle reads
RowOfHandle(tbl, handle) == FirstRow(tbl, Matching(tbl, "Handle", handle))

\* GetDIDDocument(did)
GetDIDDocument(tbl, did, dbOk) ==
    IF ~dbOk THEN {DbFailure}
    ELSE IF RowOfDID(tbl, did) = 0 THEN {NotFound}
    ELSE Projections(did, tbl[RowOfDID(tbl, did)].Operation)

\* GetDIDByHandle(handle)
GetDIDByHandle(tbl, handle, dbOk) ==
    IF ~dbOk THEN DbFailure
    ELSE IF RowOfHandle(tbl, handle) = 0 THEN NotFound
    ELSE Result("nil", "", NoDocument, <<tbl[RowOfHandle(tbl, handle)].DID>>)

\* GetHandleByDID(did)
GetHandleByDID(tbl, did, dbOk) ==
    IF ~dbOk THEN DbFailure
    ELSE IF RowOfDID(tbl, did) = 0 THEN NotFound
    ELSE Result("nil", "", NoDocument, tbl[RowOfDID(tbl, did)].Handle)

------------------------------------------------------------------------------
(* The HTTP handlers: HandleGetDIDDoc, HandleReverseSimple, HandleGetRecords *)

\* a path parameter: a DID, a handle, or neither
Param(kind, toks) == [Kind |-> kind, Toks |-> toks]

PathParams ==
    {Param("did", <<d>>) : d \in Dids}
    \cup {Param("handle", <<h>>) : h \in {"alice.test", "bob.test", "carol.test"}}
    \cup {Param("bad", <<"%">>)}

\* an HTTP response: the status, the kind of body and, for a JSON object,
\* its keys
Text(status) == [Status |-> status, Kind |-> "text", Keys |-> {}]
Json(status, keys) == [Status |-> status, Kind |-> "json", Keys |-> keys]
NoResponse == [Status |-> 0, Kind |-> "none", Keys |-> {}]

\* e.String(http.StatusNotFound, ...) for ErrNotFound, otherwise
\* e.String(http.StatusInternalServerError, ...)
ErrorReply(res) == IF res.Err = "ErrNotFound" THEN Text(404) ELSE Text(500)

\* the query a request made, with the result of the query before it when
\* that was the same query
Call(fn, arg, row, res) ==
    [Fn |-> fn, Arg |-> arg, Row |-> row, Res |-> res,
     Prev |-> IF apiCall.Fn = fn /\ apiCall.Arg = arg THEN apiCall.Res ELSE NoResult]

NoCall == [Fn |-> "none", Arg |-> <<>>, Row |-> 0, Res |-> NoResult, Prev |-> NoResult]

\* the server over the table tbl, before its first request
ApiStart(tbl) ==
    /\ apiOps = tbl
    /\ apiCall = NoCall
    /\ apiResp = NoResponse
    /\ apiStore = FALSE

\* a request the handler refuses before any query
Refuse(resp) ==
    /\ apiCall' = NoCall
    /\ apiResp' = resp
    /\ apiStore' = FALSE

\* GET /:did
HandleGetDIDDoc(p, dbOk) ==
    /\ IF p.Kind # "did" THEN Refuse(Text(400))
       ELSE \E res \in GetDIDDocument(apiOps, p.Toks[1], dbOk) :
               /\ apiCall' = Call("GetDIDDocument", p.Toks,
                                  IF dbOk THEN RowOfDID(apiOps, p.Toks[1]) ELSE 0, res)
               /\ apiResp' = IF res.Err = "nil"
                             THEN Json(200, {"@context", "id", "alsoKnownAs",
                                             "verificationMethod", "service"})
                             ELSE ErrorReply(res)
               /\ apiStore' = TRUE
    /\ UNCHANGED apiOps

\* GET /reverse/:handleOrDID
HandleReverseSimple(p, dbOk) ==
    /\ IF p.Kind = "did"
       THEN LET res == GetHandleByDID(apiOps, p.Toks[1], dbOk)
            IN /\ apiCall' = Call("GetHandleByDID", p.Toks,
                                  IF dbOk THEN RowOfDID(apiOps, p.Toks[1]) ELSE 0, res)
               /\ apiResp' = IF res.Err = "nil" THEN Json(200, {"handle"})
                             ELSE ErrorReply(res)
               /\ apiStore' = TRUE
       ELSE IF p.Kind = "handle"
       THEN LET res == GetDIDByHandle(apiOps, p.Toks, dbOk)
            IN /\ apiCall' = Call("GetDIDByHandle", p.Toks,
                                  IF dbOk THEN RowOfHandle(apiOps, p.Toks) ELSE 0, res)
               /\ apiResp' = IF res.Err = "nil" THEN Json(200, {"did"})
                             ELSE ErrorReply(res)
               /\ apiStore' = TRUE
       ELSE Refuse(Text(400))
    /\ UNCHANGED apiOps

\* the query parameters of GET /records: each absent (empty), malformed or
\* well-formed
ParamStates == {"absent", "bad", "good"}
RecordsQueries ==
    [did : ParamStates, collection : ParamStates, rkey : ParamStates,
     seq : ParamStates, limit : ParamStates]

\* faulty variant: incomplete path filters are let through
PathFilterAny(q) == ""

\* HandleGetRecords: collection needs did, rkey needs did and collection
PathFilterError(q) ==
    IF q.collection = "good" /\ q.did # "good"
    THEN "cannot query by collection without a DID"
    ELSE IF q.rkey = "good" /\ (q.did # "good" \/ q.collection # "good")
    THEN "cannot query by rkey without a DID and collection"
    ELSE ""

\* the error of the request before the store is queried, "" when it has none
RecordsError(q) ==
    IF q.did = "bad" THEN "invalid DID"
    ELSE IF q.collection = "bad" THEN "invalid collection"
    ELSE IF q.rkey = "bad" THEN "invalid record key"
    ELSE IF q.seq = "bad" THEN "invalid sequence number"
    ELSE IF PathFilterError(q) # "" THEN PathFilterError(q)
    ELSE IF q.limit = "bad" THEN "invalid limit"
    ELSE ""

\* GET /records: c.JSON(status, resp) with RecordsResponse{Records, Error}
HandleGetRecords(q, dbOk) ==
    /\ apiCall' = [NoCall EXCEPT !.Fn = "HandleGetRecords",
                                 !.Arg = <<q.did, q.collection, q.rkey, q.seq, q.limit>>,
                                 !.Res = IF RecordsError(q) # ""
                                         THEN Failure(RecordsError(q))
                                         ELSE IF dbOk THEN Result("nil", "", NoDocument, <<>>)
                                         ELSE Failure("q.Error")]
    /\ apiStore' = (RecordsError(q) = "")
    /\ apiResp' = IF RecordsError(q) # "" THEN Json(400, {"records", "error"})
                  ELSE IF dbOk THEN Json(200, {"records"})
                  ELSE Json(500, {"records", "error"})
    /\ UNCHANGED apiOps

------------------------------------------------------------------------------
(* The warehouse sink (pkg/bq): InsertRecord and the flush goroutine *)

\* batchSize := 10_000, scaled down
BatchSize == 2

\* make(chan *Record, 100_000), scaled down
BufferSize == 3

\* rows handed to the sink
MaxSinkRows == 4

\* faulty variant: the whole buffer is taken
TakeAll(buf) == buf

\* insertRecords: up to batchSize rows are received from recordBuf
TakeBatch(buf) == Take(buf, BatchSize)

\* the rows left in the buffer after n were received
Rest(buf, n) == SubSeq(buf, n + 1, Len(buf))

\* the set of the rows of a batch
Rows(batch) == {batch[k] : k \in 1..Len(batch)}

\* how a flush ends: the table cannot be prepared, there is nothing to
\* insert, inserter.Put fails, or it succeeds
Flush(batch, result) == [Batch |-> batch, Result |-> result]

\* NewBQ has returned: the buffer is empty, the flush goroutine waits for its
\* ticker
SinkStart ==
    /\ recordBuf = <<>>
    /\ bqNext = 0
    /\ bqStored = {}
    /\ bqDropped = {}
    /\ bqLast = Flush(<<>>, "none")

\* InsertRecord: bq.recordBuf <- record, which blocks while the buffer is full
InsertRecord ==
    /\ bqNext < MaxSinkRows
    /\ Len(recordBuf) < BufferSize
    /\ bqNext' = bqNext + 1
    /\ recordBuf' = Append(recordBuf, bqNext + 1)
    /\ UNCHANGED <<bqStored, bqDropped, bqLast>>

\* case <-t.C: insertRecords, whose error the goroutine logs before it waits
\* for the next tick
SinkTick(tableOk, putOk) ==
    LET batch == TakeBatch(recordBuf)
    IN IF ~tableOk
       THEN /\ bqLast' = Flush(<<>>, "failed to create table")
            /\ UNCHANGED <<recordBuf, bqNext, bqStored, bqDropped>>
       ELSE /\ recordBuf' = Rest(recordBuf, Len(batch))
            /\ bqLast' = Flush(batch, IF batch = <<>> THEN "empty"
                                      ELSE IF putOk THEN "nil"
                                      ELSE "failed to insert records")
            /\ bqStored' = IF putOk THEN bqStored \cup Rows(batch) ELSE bqStored
            /\ bqDropped' = IF putOk THEN bqDropped ELSE bqDropped \cup Rows(batch)
            /\ UNCHANGED bqNext

------------------------------------------------------------------------------
(* PLC.Shutdown against PLC.Run (plc.go, cmd/plc/main.go) *)

\* nobody has called Shutdown, the context is live
ShutStart ==
    /\ sctx = FALSE
    /\ spc = "idle"

\* the context passed to Run is cancelled
CancelCtx ==
    /\ ~sctx
    /\ sctx' = TRUE
    /\ UNCHANGED spc

\* Shutdown: errCh := make(chan error); plc.shutdown <- errCh blocks until Run
\* receives from the unbuffered channel
ShutdownCalled ==
    /\ spc = "idle"
    /\ spc' = "sending"
    /\ UNCHANGED sctx

\* Run's select, case <-ctx.Done(): return ctx.Err()
RunCtxDone ==
    /\ bpc = "loop" /\ sctx
    /\ bpc' = "returned"
    /\ UNCHANGED <<bResp, bErr, bElapsed>>
    /\ UNCHANGED <<sctx, spc>>

\* Run's select, case errCh := <-plc.shutdown: Shutdown's send completes and
\* it goes on to <-errCh
RunReceives ==
    /\ bpc = "loop" /\ spc = "sending"
    /\ bpc' = "replying"
    /\ spc' = "receiving"
    /\ UNCHANGED <<bResp, bErr, bElapsed>>
    /\ UNCHANGED sctx

\* errCh <- nil; return nil: Shutdown receives the nil and returns it
RunReplies ==
    /\ bpc = "replying" /\ spc = "receiving"
    /\ bpc' = "returned"
    /\ spc' = "returned"
    /\ UNCHANGED <<bResp, bErr, bElapsed>>
    /\ UNCHANGED sctx

\* Run's select, default: neither case is ready, GetNextPage is called
RunDefault ==
    /\ ~sctx /\ spc # "sending"
    /\ CallGetNextPage
    /\ UNCHANGED <<sctx, spc>>

------------------------------------------------------------------------------
(* Scheduler capacity: the counts of pending and executing frames *)

CapStart ==
    /\ capPending = 0
    /\ capRunning = 0

\* AddWork: the read loop submits a frame
CapSubmit ==
    /\ CanSubmit(capPending)
    /\ capPending' = capPending + 1
    /\ UNCHANGED capRunning

\* a free worker starts the handler of a pending frame
CapBegin ==
    /\ capPending > 0
    /\ CanStart(capRunning)
    /\ capPending' = capPending - 1
    /\ capRunning' = capRunning + 1

\* a handler returns
CapFinish ==
    /\ capRunning > 0
    /\ capRunning' = capRunning - 1
    /\ UNCHANGED capPending

------------------------------------------------------------------------------
(* Specifications *)

\* the parts a specification leaves alone
PlcOff == PlcStart([i \in 1..LogLen |-> "did:plc:a"])
StreamOff == StreamStart([s \in Frames |-> "did:plc:a"])

LifeOff == LifeStart(0)

FrameOff == FrameStart(IdleFrame)

SweepOff == SweepIdle

IdentOff == IdentStart

BackoffOff == BackoffStart

ApiOff == ApiStart(<<>>)

SinkOff == SinkStart

ShutOff == ShutStart

LateOff == SinkOff /\ ShutOff

AuxOff == IdentOff /\ BackoffOff /\ ApiOff /\ LateOff

\* the first six parts at rest
CoreOff == PlcOff /\ StreamOff /\ CapStart /\ LifeOff /\ FrameOff /\ SweepOff

coreVars == <<plcVars, streamVars, capVars, lifeVars, frameVars, sweepVars>>

PlcOnly == UNCHANGED <<streamVars, capVars, lifeVars, frameVars, sweepVars, auxVars>>
StreamOnly == UNCHANGED <<plcVars, capVars, lifeVars, frameVars, sweepVars, auxVars>>
CapOnly == UNCHANGED <<plcVars, streamVars, lifeVars, frameVars, sweepVars, auxVars>>
LifeOnly == UNCHANGED <<plcVars, capVars, frameVars, sweepVars, auxVars>>
FrameOnly == UNCHANGED <<plcVars, streamVars, capVars, lifeVars, sweepVars, auxVars>>
SweepOnly == UNCHANGED <<plcVars, streamVars, capVars, lifeVars, frameVars, auxVars>>

InitPLC ==
    /\ \E log \in [1..LogLen -> Dids] : PlcStart(log)
    /\ StreamOff
    /\ CapStart
    /\ LifeOff
    /\ FrameOff
    /\ SweepOff
    /\ AuxOff

NextPLC ==
    \/ SendRequest /\ PlcOnly
    \/ RequestFails /\ PlcOnly
    \/ RateLimited /\ PlcOnly
    \/ Response200 /\ PlcOnly
    \/ DecodePage /\ PlcOnly
    \/ DecodeFails /\ PlcOnly
    \/ InsertOpsOk /\ PlcOnly
    \/ InsertOpsFails /\ PlcOnly
    \/ InsertDidsOk /\ PlcOnly
    \/ InsertDidsFails /\ PlcOnly
    \/ SaveCursorOk /\ PlcOnly
    \/ SaveCursorFails /\ PlcOnly
    \/ WaitElapses /\ PlcOnly
    \/ CrashRestartPLC /\ PlcOnly

SpecPLC == InitPLC /\ [][NextPLC]_vars

\* the relay's frames; the first frame's repository is fixed, the two
\* repositories being interchangeable
Init ==
    /\ \E frames \in [Frames -> Repos] :
           frames[1] = "did:plc:a" /\ StreamStart(frames)
    /\ PlcOff
    /\ CapStart
    /\ LifeOff
    /\ FrameOff
    /\ SweepOff
    /\ AuxOff

Next ==
    \/ StartLoad /\ StreamOnly
    \/ DialOk /\ StreamOnly
    \/ DialFails /\ StreamOnly
    \/ ReadFrame /\ StreamOnly
    \/ StreamEnds /\ StreamOnly
    \/ Drained /\ StreamOnly
    \/ (\E r \in Repos : BeginHandler(r)) /\ StreamOnly
    \/ (\E s \in Frames : FinishHandler(s)) /\ StreamOnly
    \/ FlushTick /\ StreamOnly
    \/ FlushFinal /\ StreamOnly
    \/ SupShutdown /\ StreamOnly
    \/ SupExit /\ StreamOnly
    \/ CrashRestart /\ StreamOnly
    \/ Restart /\ StreamOnly

Spec == Init /\ [][Next]_vars

InitSched ==
    CapStart /\ PlcOff /\ StreamOff /\ LifeOff /\ FrameOff /\ SweepOff /\ AuxOff

NextSched ==
    \/ CapSubmit /\ CapOnly
    \/ CapBegin /\ CapOnly
    \/ CapFinish /\ CapOnly

SpecSched == InitSched /\ [][NextSched]_vars

\* LookingGlass with one repository's frames and the sweeper configured
InitLife ==
    /\ StreamStart([s \in Frames |-> "did:plc:a"])
    /\ \E t \in {0, SweepTTL} : LifeStart(t)
    /\ PlcOff
    /\ CapStart
    /\ FrameOff
    /\ SweepOff
    /\ AuxOff

NextLife ==
    \/ LifeStartLoad /\ LifeOnly
    \/ DialOk /\ StreamOnly
    \/ DialFails /\ StreamOnly
    \/ ReadFrame /\ StreamOnly
    \/ StreamEnds /\ StreamOnly
    \/ Drained /\ StreamOnly
    \/ (\E r \in Repos : BeginHandler(r)) /\ StreamOnly
    \/ (\E s \in Frames : FinishHandler(s)) /\ StreamOnly
    \/ FlushTick /\ StreamOnly
    \/ FlushFinal /\ StreamOnly
    \/ MonTick /\ LifeOnly
    \/ MonStop /\ LifeOnly
    \/ HttpStop /\ LifeOnly
    \/ SweeperStop /\ LifeOnly
    \/ (\E cs \in Causes : LifeShutdown(cs)) /\ LifeOnly
    \/ LifeExit /\ LifeOnly

SpecLife == InitLife /\ [][NextLife]_vars

\* Every goroutine that can take a step eventually takes one; the ticker of
\* the liveness checker keeps firing; a cancelled context ends the read
\* loop. A signal and the relay's frames are not owed.
LifeFairness ==
    /\ WF_vars(LifeStartLoad /\ LifeOnly)
    /\ WF_vars((DialOk \/ DialFails) /\ StreamOnly)
    /\ WF_vars(ctxDone /\ StreamEnds /\ StreamOnly)
    /\ WF_vars(Drained /\ StreamOnly)
    /\ WF_vars((\E r \in Repos : BeginHandler(r)) /\ StreamOnly)
    /\ WF_vars((\E s \in Frames : FinishHandler(s)) /\ StreamOnly)
    /\ WF_vars(FlushFinal /\ StreamOnly)
    /\ WF_vars(MonTick /\ LifeOnly)
    /\ WF_vars(MonStop /\ LifeOnly)
    /\ WF_vars(HttpStop /\ LifeOnly)
    /\ WF_vars(SweeperStop /\ LifeOnly)
    /\ WF_vars(LifeShutdown("kill") /\ LifeOnly)
    /\ WF_vars(LifeShutdown("streamKill") /\ LifeOnly)
    /\ WF_vars(LifeExit /\ LifeOnly)

SpecLifeFair == SpecLife /\ LifeFairness

InitFrame ==
    /\ \E f \in FrameInputs : FrameStart(f)
    /\ PlcOff
    /\ StreamOff
    /\ CapStart
    /\ LifeOff
    /\ SweepOff
    /\ AuxOff

NextFrame ==
    \/ RepoCommitBegin /\ FrameOnly
    \/ RepoCommitOp /\ FrameOnly
    \/ RepoCommitEnd /\ FrameOnly
    \/ RepoOther /\ FrameOnly

SpecFrame == InitFrame /\ [][NextFrame]_vars

InitSweep ==
    /\ \E t \in TTLs : SweepStart(t)
    /\ SweepIdle
    /\ PlcOff
    /\ StreamOff
    /\ CapStart
    /\ FrameOff
    /\ AuxOff

NextSweep ==
    \/ ClockTick /\ SweepOnly
    \/ StoreRow /\ SweepOnly
    \/ SweeperTick /\ SweepOnly
    \/ SweepEvents /\ SweepOnly
    \/ SweepRecords /\ SweepOnly

SpecSweep == InitSweep /\ [][NextSweep]_vars

IdentOnly == UNCHANGED <<coreVars, backoffVars, apiVars, lateVars>>

InitIdent == IdentStart /\ CoreOff /\ BackoffOff /\ ApiOff /\ LateOff

NextIdent ==
    \/ (\E d \in Dids, doc \in IdDocs : DirUpdate(d, doc)) /\ IdentOnly
    \/ (\E d \in Dids : CacheExpire(d)) /\ IdentOnly
    \/ (\E d \in Dids, o \in LookupOutcomes : CommitIdentity(d, o)) /\ IdentOnly
    \/ (\E d \in Dids, o \in LookupOutcomes : PurgeAndSave(d, o)) /\ IdentOnly

SpecIdent == InitIdent /\ [][NextIdent]_vars

BackoffOnly == UNCHANGED <<coreVars, identVars, apiVars, lateVars>>

InitBackoff == BackoffStart /\ CoreOff /\ IdentOff /\ ApiOff /\ LateOff

NextBackoff ==
    \/ BackoffSecond /\ BackoffOnly
    \/ CallGetNextPage /\ BackoffOnly
    \/ (\E r \in PageResults : GetNextPageReturns(r)) /\ BackoffOnly
    \/ WaitOver /\ BackoffOnly
    \/ RunReturns /\ BackoffOnly

SpecBackoff == InitBackoff /\ [][NextBackoff]_vars

ApiOnly == UNCHANGED <<coreVars, identVars, backoffVars, lateVars>>

InitApi ==
    /\ \E tbl \in OpTables : ApiStart(tbl)
    /\ CoreOff
    /\ IdentOff
    /\ BackoffOff
    /\ LateOff

NextApi ==
    \/ (\E p \in PathParams, dbOk \in BOOLEAN : HandleGetDIDDoc(p, dbOk)) /\ ApiOnly
    \/ (\E p \in PathParams, dbOk \in BOOLEAN : HandleReverseSimple(p, dbOk)) /\ ApiOnly

SpecApi == InitApi /\ [][NextApi]_vars

SinkOnly == UNCHANGED <<coreVars, identVars, backoffVars, apiVars, shutVars>>

InitSink == SinkStart /\ CoreOff /\ IdentOff /\ BackoffOff /\ ApiOff /\ ShutOff

NextSink ==
    \/ InsertRecord /\ SinkOnly
    \/ (\E tableOk \in BOOLEAN, putOk \in BOOLEAN : SinkTick(tableOk, putOk)) /\ SinkOnly

SpecSink == InitSink /\ [][NextSink]_vars

\* Run and Shutdown touch the Run loop's variables and their own
ShutOnly == UNCHANGED <<coreVars, identVars, apiVars, sinkVars>>

\* main starts Run in a goroutine; a caller of the package may not have
\* started it
InitShut ==
    /\ bpc \in {"loop", "notStarted"}
    /\ bResp = "none" /\ bErr = "nil" /\ bElapsed = 0
    /\ ShutStart
    /\ CoreOff /\ IdentOff /\ ApiOff /\ SinkOff

NextShut ==
    \/ BackoffSecond /\ UNCHANGED shutVars /\ ShutOnly
    \/ RunDefault /\ ShutOnly
    \/ (\E r \in PageResults : GetNextPageReturns(r)) /\ UNCHANGED shutVars /\ ShutOnly
    \/ WaitOver /\ UNCHANGED shutVars /\ ShutOnly
    \/ RunCtxDone /\ ShutOnly
    \/ RunReceives /\ ShutOnly
    \/ RunReplies /\ ShutOnly
    \/ CancelCtx /\ UNCHANGED backoffVars /\ ShutOnly
    \/ ShutdownCalled /\ UNCHANGED backoffVars /\ ShutOnly

SpecShut == InitShut /\ [][NextShut]_vars

\* The goroutine of Run keeps taking its steps, the clock keeps running and
\* every timer fires; nobody owes a cancellation or a call of Shutdown.
ShutFairness ==
    /\ WF_vars(BackoffSecond /\ UNCHANGED shutVars /\ ShutOnly)
    /\ WF_vars(RunDefault /\ ShutOnly)
    /\ WF_vars((\E r \in PageResults : GetNextPageReturns(r)) /\ UNCHANGED shutVars /\ ShutOnly)
    /\ WF_vars(WaitOver /\ UNCHANGED shutVars /\ ShutOnly)
    /\ WF_vars(RunCtxDone /\ ShutOnly)
    /\ WF_vars(RunReceives /\ ShutOnly)
    /\ WF_vars(RunReplies /\ ShutOnly)

SpecShutFair == SpecShut /\ ShutFairness

InitRecords == ApiStart(<<>>) /\ CoreOff /\ IdentOff /\ BackoffOff /\ LateOff

NextRecords ==
    \/ (\E q \in RecordsQueries, dbOk \in BOOLEAN : HandleGetRecords(q, dbOk)) /\ ApiOnly

SpecRecords == InitRecords /\ [][NextRecords]_vars

------------------------------------------------------------------------------
(* Properties of the PLC paginator, checked under SpecPLC *)

CreatedAts(tbl) == [k \in 1..Len(tbl) |-> tbl[k].CreatedAt]

\* the `after` value a request made from the persisted cursor carries
PersistedAfter == IF cursorTbl = <<>> THEN <<>> ELSE <<cursorTbl[1].LastCreatedAt>>

C2_RetryRepeatsRequest ==
    (plcPc = "sent" /\ prevFailed) => reqAfter = prevAfter

\* C7: the first export request after NewPLC carries the persisted cursor's
\* LastCreatedAt as `after`, and no `after` when the cursors table is empty.
C7_FirstRequestFromCursor ==
    (plcPc = "sent" /\ firstReq) => reqAfter = PersistedAfter

\* the first request after a restart that found a cursor row
C7_Witness ==
    /\ plcPc = "sent"
    /\ firstReq
    /\ plcRestarts > 0
    /\ cursorTbl # <<>>
    /\ reqAfter = <<cursorTbl[1].LastCreatedAt>>

------------------------------------------------------------------------------
(* Properties of the firehose consumer, checked under Spec *)

\* the firehose sequence numbers of the rows of repository r, in table order
RECURSIVE SeqsOf(_, _)
SeqsOf(tbl, r) ==
    IF tbl = <<>> THEN <<>>
    ELSE IF Head(tbl).Repo = r
         THEN <<Head(tbl).FirehoseSeq>> \o SeqsOf(Tail(tbl), r)
         ELSE SeqsOf(Tail(tbl), r)

NonDecreasing(s) == \A i \in 1..(Len(s) - 1) : s[i] <= s[i + 1]

IsPrefix(s, q) == Len(s) <= Len(q) /\ \A i \in 1..Len(s) : s[i] = q[i]

\* rows i+1.. of a table
From(tbl, i) == SubSeq(tbl, i + 1, Len(tbl))

\* the frames of key r in the order the read loop submitted them
SubmitOrder(r) ==
    SelectSeq([i \in 1..Cardinality(ReceivedNow) |-> relayStart + i - 1],
              LAMBDA s : repoOf[s] = r)

HasEvent(s) == \E k \in 1..Len(eventsTbl) : eventsTbl[k].FirehoseSeq = s

\* the seq parameter a connection made from the cursor found at start carries
BootSeq ==
    IF bootCursor = <<>> \/ bootCursor[1].LastSeq = 0
    THEN <<>> ELSE <<bootCursor[1].LastSeq>>

\* C3: s.lastSeq is the highest sequence number among the frames whose
\* handlers have started.
C3_LastSeqIsHighestStarted == lastSeq = SetMax(Started)

\* C4: after a restart that resumes from the persisted cursor, every frame
\* an earlier process received either has its event row or is at or behind
\* the resume point, so the relay sends it again.
C4_AtLeastOnceReplay ==
    (st = "reading" /\ connSeq # <<>>) =>
        \A s \in receivedPrev : HasEvent(s) \/ s >= relayStart

\* the persisted stream cursor; 0 while the cursors table has no row
PersistedSeq == IF sCursorTbl = <<>> THEN 0 ELSE sCursorTbl[1].LastSeq

\* C5: when LookingGlass has returned after the stream closed, the persisted
\* cursor is s.lastSeq as it was when the stream closed.
C5_FinalFlushBeforeExit ==
    (sup = "exited" /\ st = "closed") => PersistedSeq = lastSeqAtClose

C36_PersistedCursorMonotone == [][PersistedSeq' >= PersistedSeq]_vars

\* C8: frames of one key are handled one at a time and start in the order
\* the read loop submitted them.
C8_KeyOrder ==
    /\ \A s, u \in Active : s # u => repoOf[s] # repoOf[u]
    /\ \A r \in Repos : IsPrefix(startOrder[r], SubmitOrder(r))

\* two frames of one key were handled in turn while a frame of the other key
\* is handled concurrently with the second
C8_Witness ==
    /\ Cardinality(Active) = 2
    /\ \E r \in Repos : Len(startOrder[r]) = 2 /\ startOrder[r][2] \in Active

------------------------------------------------------------------------------
(* Properties of the scheduler's capacity, checked under SpecSched *)

\* C10: at most 10 handlers execute at once and a submission is refused
\* only when 100 frames are pending.
C10_TenWorkersHundredPending ==
    /\ capRunning <= 10
    /\ ~CanSubmit(capPending) => capPending = 100

\* C10, amended: at most 100 handlers execute at once, at most 10 frames are
\* pending and a submission is refused only when 10 are.
C10_HundredWorkersTenPending ==
    /\ capRunning <= 100
    /\ capPending <= 10
    /\ capPending < 10 => ENABLED CapSubmit
    /\ (capPending > 0 /\ capRunning < 100) => ENABLED CapBegin

\* 100 handlers execute and 10 frames are pending
C10_Witness == capRunning = 100 /\ capPending = 10

------------------------------------------------------------------------------
(* Properties of LookingGlass, checked under SpecLife and SpecLifeFair *)

C12_ExitCodeTellsCause ==
    sup = "exited" =>
        /\ cause = "signal" => exitCode = <<0>>
        /\ cause = "kill" => exitCode # <<0>>

\* a termination cause has occurred
CauseOccurred == kill \/ st = "error" \/ cause # "none"

\* C13: once a termination cause has occurred LookingGlass eventually
\* returns, and it returns only with the context cancelled and the liveness
\* checker, the HTTP server and the stream goroutine finished.
C13_ShutdownTerminates ==
    /\ [](sup = "exited" =>
            (ctxDone /\ mon = "done" /\ http = "done" /\ st \in {"closed", "error"}))
    /\ (CauseOccurred ~> sup = "exited")

\* C14: after HandleRepoStream has returned and Start has closed
\* s.streamClosed, the supervisor eventually leaves its select and shuts down.
C14_StreamEndLeadsToShutdown ==
    (st = "closed") ~> (cause # "none")

\* C37: the liveness checker never closes the kill channel a second time: no
\* tick that finds the sequence number unchanged comes after kill was closed,
\* so the process never dies of closing a closed channel.
C37_KillClosedOnce == sup # "panicked" /\ exitCode # <<2>>

\* the flusher, the sweeper and the liveness checker have left their loops
LoopsExited ==
    /\ fl \in {"none", "done"}
    /\ swp \in {"none", "done"}
    /\ mon = "done"

\* C15: after the root context is cancelled every background loop
\* eventually exits.
C15_LoopsExit == ctxDone ~> LoopsExited

------------------------------------------------------------------------------
(* Properties of the frame handlers, checked under SpecFrame *)

\* the commit was decoded: the operation loop ran
Decoded == evt.Kind = "commit" /\ ~evt.TooBig /\ evt.CarOk /\ evt.TimeOk

Returned == fpc = "returned"

\* the record rows and the error entries of the operation at path i
RowsAt(i) == {k \in 1..Len(fRecords) : fRecords[k].Path = i}
ErrorsAt(i) == {k \in 1..Len(e.Error) : e.Error[k].Path = i}

\* C16: a handler that has returned has written exactly one event row,
\* whatever the kind of its frame and the path it took.
C16_OneEventRowPerFrame == Returned => Len(fEvents) = 1

\* C17: after a decoded commit every operation that succeeds on its own has
\* its record row, whatever happened to the other operations, and the event
\* row is written.
C17_OpFailureIsLocal ==
    (Returned /\ Decoded) =>
        /\ \A i \in 1..Len(evt.Ops) :
               OpError(evt.Ops[i], i) = <<>> => Cardinality(RowsAt(i)) = 1
        /\ Len(fEvents) = 1

\* a failed operation is followed by one that has written its row
C17_Witness ==
    /\ Returned /\ Decoded
    /\ Len(evt.Ops) = 2
    /\ OpError(evt.Ops[1], 1) # <<>>
    /\ RowsAt(2) # {}
    /\ ErrorsAt(1) # {}

\* C18: a commit with tooBig set writes no record row at any point, and
\* returns with the one event row: kind commit, the frame's seq and repo,
\* error "commit too big".
C18_TooBigCommit ==
    (evt.Kind = "commit" /\ evt.TooBig) =>
        /\ fRecords = <<>>
        /\ Returned =>
             fEvents = <<[FirehoseSeq |-> evt.Seq, Repo |-> evt.Repo,
                          EventType |-> "commit",
                          Error |-> <<ErrAt("commit too big", 0)>>]>>

\* a tooBig commit whose archive is readable and whose first operation would
\* have written a row has returned
C18_Witness ==
    /\ Returned
    /\ evt.Kind = "commit" /\ evt.TooBig /\ evt.CarOk /\ evt.TimeOk
    /\ Len(evt.Ops) > 0
    /\ evt.Ops[1] = GoodOp("create")
    /\ Len(fEvents) = 1

\* the three cases of C19 for the create or update `op`
NoDeclaredCid(op) == op.Cid = 0
BlockCidDiffers(op) == op.Cid # 0 /\ ~op.LookupErr /\ op.BlockCid # op.Cid
NoBytes(op) == op.Cid # 0 /\ ~op.LookupErr /\ op.Rec = "nil"

\* C19: after a decoded commit a create or update whose declared CID is
\* absent, whose block has another CID, or whose lookup gave no bytes has no
\* record row and an error entry naming its path; for another CID the entry
\* is the cid mismatch.
C19_SkippedCreateOrUpdate ==
    (Returned /\ Decoded) =>
        \A i \in 1..Len(evt.Ops) :
            LET op == evt.Ops[i] IN
            (op.Action \in {"create", "update"}) =>
                /\ (NoDeclaredCid(op) \/ BlockCidDiffers(op) \/ NoBytes(op)) =>
                       (RowsAt(i) = {} /\ ErrorsAt(i) # {})
                /\ BlockCidDiffers(op) =>
                       \E k \in ErrorsAt(i) : e.Error[k].Msg = "cid mismatch"

\* a decoded commit carried an operation of each of the three cases
C19_Witness ==
    /\ Returned /\ Decoded
    /\ \E i \in 1..Len(evt.Ops) : BlockCidDiffers(evt.Ops[i])
    /\ \E i \in 1..Len(evt.Ops) : NoDeclaredCid(evt.Ops[i]) \/ NoBytes(evt.Ops[i])
    /\ fRecords = <<>>
    /\ Len(e.Error) = 2

------------------------------------------------------------------------------
(* Properties of the retention sweeper, checked under SpecSweep *)

\* the rows of both tables
StoredRows == sEvents \cup sRecords

\* C20: with a positive TTL, once a run of the sweeper that fired at firedAt
\* has executed both deletes, no event row and no record row created before
\* firedAt - TTL is left; with a TTL of zero or less the sweeper never runs
\* and no step removes a row.
C20_SweeperRemovesExpired ==
    /\ [](swpc = "swept" =>
            /\ ttl > 0
            /\ \A r \in StoredRows : r.CreatedAt >= firedAt - ttl)
    /\ [](ttl <= 0 => (swp = "none" /\ swpc = "idle"))
    /\ [][ttl <= 0 => (sEvents \subseteq sEvents' /\ sRecords \subseteq sRecords')]_vars

\* a run has removed two rows and left a younger one
C20_Witness ==
    /\ swpc = "swept" /\ ttl > 0
    /\ Cardinality(StoredRows) + 2 = sIns
    /\ StoredRows # {}

------------------------------------------------------------------------------
(* Properties of the operations table, checked under SpecPLC *)

\* a step never changes or removes a stored row of db_ops
OpsImmutable ==
    [][Len(opsTbl') >= Len(opsTbl) /\ SubSeq(opsTbl', 1, Len(opsTbl)) = opsTbl]_vars

\* C29: whatever pages, failures and restarts have happened, the operations
\* table has no two rows with the same (subject, creation timestamp).
C29_OpsUniquePerSubjectAndTime ==
    \A j, k \in 1..Len(opsTbl) :
        (opsTbl[j].DID = opsTbl[k].DID /\ opsTbl[j].CreatedAt = opsTbl[k].CreatedAt)
            => j = k

\* C34: the cursors table of the mirror never holds more than one row; the
\* Save that ends a successful page leaves exactly one row, the in-memory
\* cursor, creating it when the table was empty and rewriting the same row
\* (the same primary key) otherwise, also after a restart.
C34_OneCursorRow ==
    /\ [](Len(cursorTbl) <= 1)
    /\ [][SaveCursorOk =>
            /\ Len(cursorTbl') = 1
            /\ cursorTbl'[1] = memCursor'
            /\ cursorTbl'[1].LastCreatedAt = CreatedAtOf(Last(pageOps))
            /\ cursorTbl # <<>> => cursorTbl'[1].ID = cursorTbl[1].ID]_vars

\* the row was created by one page and rewritten by another after a restart
C34_Witness ==
    /\ Len(cursorTbl) = 1
    /\ cursorTbl[1].OpsSeen > PageSize
    /\ plcRestarts = 1
    /\ plcPc = "waitInterval"

\* GetNextPage is not running: it has returned, with or without an error, or
\* the process was started again
BetweenPages == plcPc \in {"loop", "wait5s", "wait2m", "waitInterval"}

OpsOf(d) == {k \in 1..Len(opsTbl) : opsTbl[k].DID = d}
DidRows(d) == {k \in 1..Len(didsTbl) : didsTbl[k] = d}

\* C40: whenever GetNextPage is not running, every subject that has a row in
\* the operations table has exactly one row in the subject index.
C40_SubjectIndexComplete ==
    BetweenPages =>
        \A d \in Dids : OpsOf(d) # {} => Cardinality(DidRows(d)) = 1

------------------------------------------------------------------------------
(* Properties of the identities table, checked under SpecIdent *)

RowsOf(d) == {k \in 1..Len(identTbl) : identTbl[k].DID = d}

\* C30: the identities table has at most one row per subject, and a save for
\* a subject leaves that subject's one row with the handle and PDS just
\* resolved, adding a row only when the subject had none.
C30_OneIdentityPerSubject ==
    /\ [](\A d \in Dids : Cardinality(RowsOf(d)) <= 1)
    /\ [][\A d \in Dids :
            (PurgeAndSave(d, "saved") \/ (idCache[d] = NoEntry /\ CommitIdentity(d, "saved")))
            => /\ \E k \in 1..Len(identTbl') : identTbl'[k] = IdentityOf(d, idDir[d])
               /\ Len(identTbl') = Len(identTbl) + (IF RowsOf(d) = {} THEN 1 ELSE 0)]_vars

\* four saves have left two rows, the first subject's with its new handle
C30_Witness ==
    /\ Len(identTbl) = 2
    /\ identTbl[1].Handle = 2
    /\ idSaves = 4

\* C33: a handle or identity frame purges the cache entry of its subject
\* before it resolves the subject, so its lookup is never answered from the
\* cache and the identity it saves is what the directory holds at that
\* moment, whatever entry the cache held before the frame.
C33_PurgeBeforeResolve ==
    /\ [](idLast.Kind = "handle" => ~idLast.FromCache)
    /\ [][\A d \in Dids : PurgeAndSave(d, "saved") =>
            /\ idCache'[d] = <<idDir[d]>>
            /\ \E k \in 1..Len(identTbl') : identTbl'[k] = IdentityOf(d, idDir[d])]_vars

\* a handle frame found a stale entry in the cache; the table and the cache
\* now hold the subject as the directory has it
C33_Witness ==
    /\ idLast.Kind = "handle"
    /\ idLast.Before # NoEntry
    /\ idLast.Before[1] # idDir[idLast.DID]
    /\ idCache[idLast.DID] = <<idDir[idLast.DID]>>
    /\ \E k \in 1..Len(identTbl) : identTbl[k] = IdentityOf(idLast.DID, idDir[idLast.DID])

------------------------------------------------------------------------------
(* Properties of the paginator's waits, checked under SpecBackoff *)

\* C21: a 429 makes GetNextPage return ErrRateLimited, and the next call of
\* GetNextPage (the next export request) comes at least 120 seconds after
\* that return; after any other failure it comes at least 5 seconds after;
\* no call is made while Run waits.
C21_Backoff ==
    /\ [](bErr = "ErrRateLimited" <=> bResp = "status429")
    /\ []((bpc = "inPage" /\ bErr = "ErrRateLimited") => bElapsed >= RateLimitWait)
    /\ []((bpc = "inPage" /\ bErr = "other") => bElapsed >= RetryWait)
    /\ [][bpc' = "inPage" /\ bpc # "inPage" => bpc = "loop"]_vars

\* the request that follows a 429 has been issued, two minutes later
C21_Witness ==
    /\ bpc = "inPage"
    /\ bResp = "status429"
    /\ bElapsed = RateLimitWait

------------------------------------------------------------------------------
(* Properties of the PLC mirror's queries, checked under SpecApi *)

\* the last request ran GetDIDDocument and the store answered
DocCall == apiCall.Fn = "GetDIDDocument" /\ apiCall.Res # DbFailure

\* the subject of the last DID query and the rows stored for it
Subject == apiCall.Arg[1]
SubjectRows == {k \in 1..Len(apiOps) : apiOps[k].DID = Subject}
LiveRows == {k \in SubjectRows : ~apiOps[k].Nullified}

\* row k is the most recent of the rows S
MostRecent(k, S) == k \in S /\ \A j \in S : apiOps[j].CreatedAt <= apiOps[k].CreatedAt

\* C22: the document of a subject is built from its most recent operation
\* that is not nullified.
C22_ProjectionSkipsNullified ==
    (DocCall /\ LiveRows # {}) => MostRecent(apiCall.Row, LiveRows)

\* C23: two calls of GetDIDDocument for the same subject over the same table
\* return the same document, lists in the same order.
C23_ProjectionDeterministic ==
    (DocCall /\ apiCall.Res.Err = "nil" /\ apiCall.Prev.Err = "nil")
        => apiCall.Res.Doc = apiCall.Prev.Doc

\* the operation the last GetDIDDocument read
ReadOp == apiOps[apiCall.Row].Operation

\* a string without a leading did:key:
Multibase(toks) == IF toks # <<>> /\ toks[1] = "did:key:" THEN SubSeq(toks, 2, Len(toks)) ELSE toks

\* C24: a document that is returned has the three contexts, the subject as
\* id, alsoKnownAs as stored, one service {#key, type, endpoint} per entry
\* of services and one verification method {subject#key, Multikey, subject,
\* value without did:key:} per entry of verificationMethods.
C24_DocumentContents ==
    (DocCall /\ apiCall.Res.Err = "nil") =>
        LET doc == apiCall.Res.Doc
            svcs == IF ReadOp.Services.Kind = "map" THEN ReadOp.Services.Entries ELSE NoSvcs
            keys == IF ReadOp.Keys.Kind = "map" THEN ReadOp.Keys.Entries ELSE NoEntries
        IN /\ doc.Context = <<"https://www.w3.org/ns/did/v1",
                              "https://w3id.org/security/multikey/v1",
                              "https://w3id.org/security/suites/secp256k1-2019/v1">>
           /\ doc.ID = Subject
           /\ Len(doc.AlsoKnownAs) = Len(ReadOp.Aka.Items)
           /\ \A i \in 1..Len(doc.AlsoKnownAs) : doc.AlsoKnownAs[i] = ReadOp.Aka.Items[i].Toks
           /\ Len(doc.Service) = Cardinality(DOMAIN svcs)
           /\ \A k \in DOMAIN svcs :
                  Cardinality({i \in 1..Len(doc.Service) :
                      doc.Service[i] = [ID |-> <<"#", k>>, Type |-> svcs[k].Type.Toks,
                                        ServiceEndpoint |-> svcs[k].Endpoint.Toks]}) = 1
           /\ Len(doc.VerificationMethod) = Cardinality(DOMAIN keys)
           /\ \A k \in DOMAIN keys :
                  Cardinality({i \in 1..Len(doc.VerificationMethod) :
                      doc.VerificationMethod[i] =
                          [ID |-> <<Subject, "#", k>>, Type |-> "Multikey",
                           Controller |-> Subject,
                           PublicKeyMultibase |-> Multibase(keys[k].Toks)]}) = 1

\* a document with two services and two keys, one of them stored with the
\* did:key: prefix, was returned
C24_Witness ==
    /\ DocCall /\ apiCall.Res.Err = "nil"
    /\ Len(apiCall.Res.Doc.Service) = 2
    /\ Len(apiCall.Res.Doc.VerificationMethod) = 2
    /\ Len(apiCall.Res.Doc.AlsoKnownAs) = 2
    /\ \E k \in DOMAIN ReadOp.Keys.Entries : ReadOp.Keys.Entries[k].Toks[1] = "did:key:"

\* a field GetDIDDocument extracts has the wrong shape
WrongShape(op) ==
    \/ op.Kind # "map"
    \/ op.Aka.Kind # "list"
    \/ \E i \in 1..Len(op.Aka.Items) : op.Aka.Items[i].Kind # "string"
    \/ op.Services.Kind # "map"
    \/ \E k \in DOMAIN op.Services.Entries :
           \/ op.Services.Entries[k].Kind # "map"
           \/ op.Services.Entries[k].Type.Kind # "string"
           \/ op.Services.Entries[k].Endpoint.Kind # "string"
    \/ op.Keys.Kind # "map"
    \/ \E k \in DOMAIN op.Keys.Entries : op.Keys.Entries[k].Kind # "string"

\* C25: GetDIDDocument returns NotFound exactly when the subject has no
\* stored operation and a generic failure whenever a field of the operation
\* read has the wrong shape; the handler answers 404 and 500.
C25_NotFoundAndGenericFailure ==
    DocCall =>
        /\ apiCall.Res.Err = "ErrNotFound" <=> SubjectRows = {}
        /\ (SubjectRows # {} /\ WrongShape(ReadOp)) => apiCall.Res.Err = "other"
        /\ apiCall.Res.Err = "ErrNotFound" => apiResp.Status = 404
        /\ apiCall.Res.Err = "other" => apiResp.Status = 500

\* the rows whose handle column is the handle of the last query
HandleRows == {k \in 1..Len(apiOps) : apiOps[k].Handle = apiCall.Arg}

\* C26: GetDIDByHandle returns the subject of a most recent operation with
\* that handle, GetHandleByDID the handle of a most recent operation of the
\* subject; NotFound (404) exactly when there is no such operation, and a
\* failure of the store is a different answer (500).
C26_ReverseLookup ==
    /\ (apiCall.Fn = "GetDIDByHandle" /\ apiCall.Res # DbFailure) =>
          /\ apiCall.Res.Err = "ErrNotFound" <=> HandleRows = {}
          /\ HandleRows # {} =>
                /\ apiCall.Res.Err = "nil"
                /\ \E k \in HandleRows :
                       MostRecent(k, HandleRows) /\ apiCall.Res.Value = <<apiOps[k].DID>>
    /\ (apiCall.Fn = "GetHandleByDID" /\ apiCall.Res # DbFailure) =>
          /\ apiCall.Res.Err = "ErrNotFound" <=> SubjectRows = {}
          /\ SubjectRows # {} =>
                /\ apiCall.Res.Err = "nil"
                /\ \E k \in SubjectRows :
                       MostRecent(k, SubjectRows) /\ apiCall.Res.Value = apiOps[k].Handle
    /\ apiCall.Fn \in {"GetDIDByHandle", "GetHandleByDID"} =>
          /\ apiCall.Res.Err = "ErrNotFound" => apiResp.Status = 404
          /\ apiCall.Res = DbFailure => apiResp.Status = 500
          /\ apiCall.Res.Err = "nil" => apiResp.Status = 200

\* two subjects have used the handle; the lookup returned the later one,
\* which was stored first
C26_Witness ==
    /\ apiCall.Fn = "GetDIDByHandle"
    /\ Len(apiOps) = 2
    /\ HandleRows = {1, 2}
    /\ apiOps[1].DID # apiOps[2].DID
    /\ apiOps[1].CreatedAt > apiOps[2].CreatedAt
    /\ apiCall.Res.Value = <<apiOps[1].DID>>

\* C28: every error response is a JSON object with an "error" member.
C28_ErrorsAreJson ==
    apiResp.Status >= 400 => (apiResp.Kind = "json" /\ "error" \in apiResp.Keys)

\* C39: when GetDIDByHandle(h) returns subject d over a table, GetHandleByDID(d)
\* over the same table returns h.
C39_ReverseLookupsAgree ==
    (apiCall.Fn = "GetDIDByHandle" /\ apiCall.Res.Err = "nil") =>
        LET back == GetHandleByDID(apiOps, apiCall.Res.Value[1], TRUE)
        IN back.Err = "nil" /\ back.Value = apiCall.Arg

------------------------------------------------------------------------------
(* Properties of GET /records, checked under SpecRecords *)

\* the last request and its parameters
RecordsCall == apiCall.Fn = "HandleGetRecords"
HasParam(i) == apiCall.Arg[i] = "good"
WellFormed == \A i \in 1..5 : apiCall.Arg[i] # "bad"

\* collection without did, or rkey without did and collection
IncompleteFilter ==
    \/ HasParam(2) /\ ~HasParam(1)
    \/ HasParam(3) /\ ~(HasParam(1) /\ HasParam(2))

\* C27: a well-formed request with an incomplete path filter is answered 400
\* without a query to the store; every other well-formed request is accepted
\* and queries the store.
C27_IncompleteFiltersRejected ==
    (RecordsCall /\ WellFormed) =>
        /\ IncompleteFilter => (apiResp.Status = 400 /\ ~apiStore)
        /\ ~IncompleteFilter => (apiResp.Status # 400 /\ apiStore)

\* rkey and did without collection was refused
C27_Witness ==
    /\ RecordsCall /\ WellFormed
    /\ HasParam(3) /\ HasParam(1) /\ ~HasParam(2)
    /\ apiResp.Status = 400

------------------------------------------------------------------------------
(* Properties of SpecFrame: the rows of a decoded commit *)

\* the operation runs to the end of its case: its bytes are found under the
\* declared CID and decode, its path parses and the store takes the row
Completes(op) ==
    \/ /\ op.Action \in {"create", "update"}
       /\ op.Cid # 0 /\ ~op.LookupErr /\ op.BlockCid = op.Cid /\ op.Rec = "ok"
       /\ op.PathOk /\ op.InsertOk
    \/ op.Action = "delete" /\ op.PathOk /\ op.InsertOk

Completed == {i \in 1..Len(evt.Ops) : Completes(evt.Ops[i])}

\* C31: when RepoCommit returns for a commit that was decoded, the record
\* rows it wrote are as many as the operations that completed without error,
\* and the error field of the event row it wrote is empty exactly when every
\* operation completed; an operation with an unknown action is an error and
\* has no row.
C31_RowsAndErrorField ==
    (Decoded /\ Returned) =>
        /\ Len(fRecords) = Cardinality(Completed)
        /\ Len(fEvents) = 1
        /\ (fEvents[1].Error = <<>>) <=> (Completed = 1..Len(evt.Ops))
        /\ \A i \in 1..Len(evt.Ops) :
               evt.Ops[i].Action \notin {"create", "update", "delete"} =>
                   RowsAt(i) = {} /\ ErrorsAt(i) # {}

\* a commit of a completed operation and one with an unknown action has
\* returned
C31_Witness ==
    /\ Decoded /\ Returned
    /\ Len(evt.Ops) = 2
    /\ Completes(evt.Ops[1])
    /\ evt.Ops[2].Action = "rename"
    /\ Len(fRecords) = 1
    /\ fEvents[1].Error # <<>>

\* C32: when RepoCommit returns for a decoded commit, a delete whose path
\* parses (and whose row the store takes) has one record row, with the action
\* delete and an empty payload, and r.GetRecordBytes was not called for it.
C32_DeleteRow ==
    (Decoded /\ Returned) =>
        \A i \in 1..Len(evt.Ops) :
            (evt.Ops[i].Action = "delete" /\ evt.Ops[i].PathOk /\ evt.Ops[i].InsertOk) =>
                /\ Cardinality(RowsAt(i)) = 1
                /\ \A k \in RowsAt(i) : fRecords[k].Action = "delete" /\ fRecords[k].Raw = ""
                /\ i \notin fLookups

\* a commit of a create and a delete has returned: the create was looked up
C32_Witness ==
    /\ Decoded /\ Returned
    /\ Len(evt.Ops) = 2
    /\ evt.Ops[1].Action = "create" /\ Completes(evt.Ops[1])
    /\ evt.Ops[2].Action = "delete" /\ evt.Ops[2].PathOk /\ evt.Ops[2].InsertOk
    /\ fLookups = {1}
    /\ Len(fRecords) = 2

------------------------------------------------------------------------------
(* Properties of the warehouse sink, checked under SpecSink *)

Min(a, b) == IF a < b THEN a ELSE b

\* the flush that failed in inserter.Put
PutFailed(f) == f.Result = "failed to insert records"

\* C35: a tick takes the oldest rows of the buffer, at most batchSize of
\* them, as one batch; when the Put of a batch fails its rows are neither in
\* the warehouse nor back in the buffer, then or ever after, and the other
\* rows stay buffered for the ticks that follow.
C35_LossySink ==
    /\ [](Len(bqLast.Batch) <= BatchSize)
    /\ [](bqDropped \cap bqStored = {})
    /\ [](Rows(recordBuf) \cap (bqDropped \cup bqStored) = {})
    /\ [][\A putOk \in BOOLEAN : SinkTick(TRUE, putOk) =>
            /\ bqLast'.Batch = SubSeq(recordBuf, 1, Min(Len(recordBuf), BatchSize))
            /\ recordBuf' = Rest(recordBuf, Len(bqLast'.Batch))
            /\ PutFailed(bqLast') =>
                   /\ bqStored' = bqStored
                   /\ Rows(bqLast'.Batch) \subseteq bqDropped'
                   /\ Rows(bqLast'.Batch) \cap Rows(recordBuf') = {}]_vars

\* the first batch was dropped by a failed Put and a later tick has inserted
\* the rows that came after it
C35_Witness ==
    /\ bqDropped = {1, 2}
    /\ bqStored = {3, 4}
    /\ recordBuf = <<>>
    /\ bqLast.Result = "nil"

------------------------------------------------------------------------------
(* Properties of PLC.Shutdown, checked under SpecShutFair *)

\* C38: a call of Shutdown eventually returns, wherever Run stands when it
\* is made: in a page fetch, in a wait, returned after its context was
\* cancelled, or never started.
C38_ShutdownReturns == (spc = "sending") ~> (spc = "returned")
====
